---------------------------- MODULE Spec2Model ----------------------------
(***************************************************************************)
(* A model of the semantic-search indexing pipeline: the IndexingService   *)
(* (indexWorkspace, indexFiles, indexFile, deleteFileIndex,                *)
(* deleteWorkspaceIndex, getIndexEntries), the VectorDbService tables it   *)
(* writes (workspaces_v1, folders_v1, indexed_files_v1,                    *)
(* file_chunks_small_v1) and the FileWatcherService debounce timers.       *)
(*                                                                         *)
(* An asynchronous operation is a task with a program counter.  One step   *)
(* of a task runs from the completion of one awaited I/O call to the next  *)
(* awaited call, which is the unit the JavaScript event loop interleaves.  *)
(***************************************************************************)
EXTENDS Integers, Sequences, FiniteSets, TLC

VARIABLES
    disk,          \* file path -> content on disk, or "missing"
    now,           \* logical clock behind Date.now()
    workspaces,    \* workspaces_v1: the workspace paths that have a row
    folders,       \* folders_v1 rows
    files,         \* indexed_files_v1 rows
    chunks,        \* file_chunks_small_v1 rows
    status,        \* IndexingService.status
    task,          \* task id -> the asynchronous call it is running
    watching,      \* FileWatcherService: the event subscriptions are in place
    pendingFiles,  \* FileWatcherService.pendingFiles: path -> timer id, 0 when absent
    timers,        \* the armed setTimeout timers
    wclock,        \* the watcher's time in milliseconds
    calls,         \* the indexingService calls the watcher has made, in order
    wlog,          \* what the watcher has been through (history)
    connection,    \* VectorDbService.connection: TRUE when open, FALSE when null
    dbcall,        \* the latest VectorDbService call made on its own, and how it ended
    chunker,       \* a run of splitIntoTokenChunks on its own: input, locals, output
    searching,     \* a search: its caller, arguments, position, results and what the caller shows
    embedding,     \* EmbeddingService: its fields and the callers that need the model
    chromaProc     \* ChromaProcessManager: its fields, the server process and pending callbacks

vars == <<disk, now, workspaces, folders, files, chunks, status, task,
          watching, pendingFiles, timers, wclock, calls, wlog,
          connection, dbcall, chunker, searching, embedding, chromaProc>>

storeVars == <<workspaces, folders, files, chunks>>
watcherVars == <<watching, pendingFiles, timers, wclock, calls, wlog>>
otherVars == <<connection, dbcall, chunker, searching, embedding, chromaProc>>

-----------------------------------------------------------------------------
(* Bounds of the model *)

\* Date.now() is read at most this many times
MaxClock == 2

\* the watcher's clock advances in steps of TickMs and stops at MaxWatchTime
TickMs == 500
MaxWatchTime == 3000

\* the watcher handles at most this many events
MaxEvents == 3

-----------------------------------------------------------------------------
(* The corpus: two nested workspace folders and two files *)

WsP == <<"p">>
WsPS == <<"p", "s">>
FileA == <<"p", "a">>
FileB == <<"p", "s", "b">>

Workspaces == {WsP, WsPS}
Files == {FileA, FileB}
\* a second file in the folder of FileB, absent until it is created
FileC == <<"p", "s", "c">>
AllFiles == Files \cup {FileC}
Contents == {"c1", "c2"}
NoPath == <<>>

\* cl100k token counts of the lines of each content
Lines(c) ==
    CASE c = "c1" -> <<10, 10>>
      [] OTHER -> <<600, 600>>

IsUnder(w, f) == Len(w) < Len(f) /\ SubSeq(f, 1, Len(w)) = w

\* path.relative(workspacePath, filePath) for a file below the workspace
getRelativePath(w, f) == SubSeq(f, Len(w) + 1, Len(f))

\* crypto md5 of the content, hex
calculateMD5(c) == <<"md5", c>>

\* sha256("workspacePath:relativePath") cut to 16 hex digits
generateFileId(w, f) == <<w, getRelativePath(w, f)>>

generateChunkId(fileId, lineStart, lineEnd) == <<fileId, lineStart, lineEnd>>

\* md5(workspacePath) cut to 16 hex digits
workspaceIdOf(w) == <<"ws", w>>

\* the part of the path before its last slash; "" when the last slash is the first character
extractFolderPath(p) == IF Len(p) >= 2 THEN SubSeq(p, 1, Len(p) - 1) ELSE NoPath

generateFolderId(wid, folderPath) == <<wid, folderPath>>

-----------------------------------------------------------------------------
(* tokenChunker.ts *)

DefaultChunkMaxTokens == 1024
DefaultChunkOverlapTokens == 128
MinChunkTokens == 256
MaxChunkTokens == 2048

Min(a, b) == IF a < b THEN a ELSE b
Max(a, b) == IF a > b THEN a ELSE b

RECURSIVE SumTo(_, _)
SumTo(lines, i) == IF i = 0 THEN 0 ELSE lines[i] + SumTo(lines, i - 1)

\* tokenStarts[i] and tokenEnds[i] of the source, i counted from 0
tokenStarts(lines, i) == SumTo(lines, i)
tokenEnds(lines, i) == SumTo(lines, i + 1)

\* the inner while loop: the exclusive end line of the window that starts at startLine
RECURSIVE growWindow(_, _, _, _)
growWindow(lines, startLine, endLineExclusive, maxTokens) ==
    IF endLineExclusive > Len(lines) THEN endLineExclusive
    ELSE LET candidateTokenCount ==
                 tokenEnds(lines, endLineExclusive - 1) - tokenStarts(lines, startLine)
         IN IF candidateTokenCount > maxTokens /\ endLineExclusive > startLine + 1
              THEN endLineExclusive - 1
            ELSE IF candidateTokenCount > maxTokens
              THEN endLineExclusive
            ELSE growWindow(lines, startLine, endLineExclusive + 1, maxTokens)

\* the for loop that looks for the first line at or after the desired overlap start
RECURSIVE overlapStart(_, _, _, _, _)
overlapStart(lines, i, endLineExclusive, desired, dflt) ==
    IF i >= endLineExclusive THEN dflt
    ELSE IF tokenStarts(lines, i) >= desired THEN i
    ELSE overlapStart(lines, i + 1, endLineExclusive, desired, dflt)

\* faulty variant: the next chunk starts one line after the line that follows the chunk
nextStartSkipsLine(lines, startLine, endLineExclusive, overlapTokens) == endLineExclusive + 1

nextStart(lines, startLine, endLineExclusive, overlapTokens) ==
    IF overlapTokens <= 0 THEN endLineExclusive
    ELSE LET chunkTokenStart == tokenStarts(lines, startLine)
             tokenEnd == tokenEnds(lines, endLineExclusive - 1)
             desired == Max(chunkTokenStart, tokenEnd - overlapTokens)
             nextStartLine == overlapStart(lines, startLine + 1, endLineExclusive,
                                           desired, endLineExclusive - 1)
         IN IF nextStartLine <= startLine THEN startLine + 1 ELSE nextStartLine

\* the outer while loop
RECURSIVE chunkLoop(_, _, _, _, _)
chunkLoop(lines, startLine, maxTokens, overlapTokens, acc) ==
    IF startLine >= Len(lines) THEN acc
    ELSE LET grown == growWindow(lines, startLine, startLine + 1, maxTokens)
             capped == IF grown > Len(lines) THEN Len(lines) ELSE grown
             endLineExclusive == IF capped <= startLine
                                   THEN Min(startLine + 1, Len(lines)) ELSE capped
             chunk == [lineStart |-> startLine + 1,
                       lineEnd |-> endLineExclusive,
                       tokenStart |-> tokenStarts(lines, startLine),
                       tokenEnd |-> tokenEnds(lines, endLineExclusive - 1)]
         IN IF endLineExclusive >= Len(lines) THEN Append(acc, chunk)
            ELSE chunkLoop(lines, nextStart(lines, startLine, endLineExclusive, overlapTokens),
                           maxTokens, overlapTokens, Append(acc, chunk))

splitIntoTokenChunks(lines, chunkMaxTokens, chunkOverlapTokens) ==
    LET maxTokens == Min(Max(chunkMaxTokens, MinChunkTokens), MaxChunkTokens)
        overlapTokens == Max(0, Min(chunkOverlapTokens, maxTokens - 1))
        totalTokens == SumTo(lines, Len(lines))
    IN IF Len(lines) = 0 THEN <<>>
       ELSE IF totalTokens <= maxTokens
         THEN << [lineStart |-> 1, lineEnd |-> Len(lines),
                  tokenStart |-> 0, tokenEnd |-> totalTokens] >>
       ELSE chunkLoop(lines, 0, maxTokens, overlapTokens, <<>>)

\* smartChunk on a code file: the token chunker under the service's configuration
smartChunk(c) == splitIntoTokenChunks(Lines(c), DefaultChunkMaxTokens, DefaultChunkOverlapTokens)

\* the chunk table, computed once
ChunkTable == [c \in Contents |-> smartChunk(c)]


-----------------------------------------------------------------------------
(* VectorDbService: the tables and the statements that change them *)

NoRow == <<>>

\* SELECT ... FROM indexed_files_v1 WHERE file_id = $1
getIndexedFile(fileId) == {r \in files : r.fileId = fileId}

\* SELECT ... FROM indexed_files_v1 WHERE file_path = $1
getIndexedFileByPath(filePath) == {r \in files : r.filePath = filePath}

\* SELECT ... INNER JOIN workspaces_v1 w ... WHERE w.workspace_path = $1
getIndexedFilesForWorkspace(w) ==
    {r \in files : w \in workspaces /\ r.workspaceId = workspaceIdOf(w)}

getFileChunkCount(fileId) == Cardinality({c \in chunks : c.fileId = fileId})

\* faulty variant: the old chunks are not deleted
deleteNoChunks(fileId) == chunks

\* DELETE FROM file_chunks_small_v1 WHERE file_id = ...
deleteFileChunks(fileId) == {c \in chunks : c.fileId # fileId}

\* DELETE FROM indexed_files_v1 WHERE file_id = $1
deleteIndexedFile(fileId) == {r \in files : r.fileId # fileId}

\* INSERT INTO file_chunks_small_v1 ... ON CONFLICT (chunk_id) DO UPDATE
addChunk(row) == {c \in chunks : c.chunkId # row.chunkId} \cup {row}

\* the row addChunk writes for chunk number k (from 1) of content c of file f in workspace w
chunkRow(w, f, c, k) ==
    LET raw == ChunkTable[c][k]
        fileId == generateFileId(w, f)
    IN [chunkId |-> generateChunkId(fileId, raw.lineStart, raw.lineEnd),
        fileId |-> fileId,
        filePath |-> f,
        workspacePath |-> w,
        content |-> <<c, raw.lineStart, raw.lineEnd>>,
        lineStart |-> raw.lineStart,
        lineEnd |-> raw.lineEnd,
        chunkIndex |-> k - 1]

\* faulty variant: no row is inserted for a new path
getOrCreateWorkspaceIdNoInsert(w) == workspaces

\* getOrCreateWorkspaceId: INSERT INTO workspaces_v1 ... ON CONFLICT DO NOTHING
getOrCreateWorkspaceId(w) == IF w = NoPath THEN workspaces ELSE workspaces \cup {w}

\* getOrCreateFolderId: the folder rows it inserts for the folder of filePath, parents first
RECURSIVE getOrCreateFolderId(_, _, _)
getOrCreateFolderId(wid, filePath, rows) ==
    LET folderPath == extractFolderPath(filePath)
        folderId == generateFolderId(wid, folderPath)
        parentFolderPath == extractFolderPath(folderPath)
        withParents == IF parentFolderPath # NoPath
                         THEN getOrCreateFolderId(wid, folderPath, rows) ELSE rows
    IN IF folderPath = NoPath THEN rows
       ELSE IF \E r \in rows : r.folderId = folderId THEN rows
       ELSE withParents \cup
            {[folderId |-> folderId,
              workspaceId |-> wid,
              parentFolderId |-> IF parentFolderPath # NoPath
                                   THEN generateFolderId(wid, parentFolderPath) ELSE NoRow,
              folderPath |-> folderPath]}

\* the row getOrCreateFolderId inserts for folderPath
folderRow(wid, folderPath) ==
    [folderId |-> generateFolderId(wid, folderPath),
     workspaceId |-> wid,
     parentFolderId |-> IF extractFolderPath(folderPath) # NoPath
                          THEN generateFolderId(wid, extractFolderPath(folderPath)) ELSE NoRow,
     folderPath |-> folderPath]

\* faulty variant: the folder is inserted before the recursion creates its parents
RECURSIVE folderInsertsChildFirst(_, _, _)
folderInsertsChildFirst(wid, filePath, rows) ==
    LET folderPath == extractFolderPath(filePath)
    IN IF folderPath = NoPath THEN <<>>
       ELSE IF \E r \in rows : r.folderId = generateFolderId(wid, folderPath) THEN <<>>
       ELSE <<folderRow(wid, folderPath)>> \o
            (IF extractFolderPath(folderPath) # NoPath
               THEN folderInsertsChildFirst(wid, folderPath, rows) ELSE <<>>)

\* getOrCreateFolderId: its INSERT statements in the order they are awaited
RECURSIVE folderInserts(_, _, _)
folderInserts(wid, filePath, rows) ==
    LET folderPath == extractFolderPath(filePath)
    IN IF folderPath = NoPath THEN <<>>
       ELSE IF \E r \in rows : r.folderId = generateFolderId(wid, folderPath) THEN <<>>
       ELSE (IF extractFolderPath(folderPath) # NoPath
               THEN folderInserts(wid, folderPath, rows) ELSE <<>>)
            \o <<folderRow(wid, folderPath)>>

\* INSERT INTO indexed_files_v1 ... ON CONFLICT (file_id) DO UPDATE
upsertIndexedFile(row) == {r \in files : r.fileId # row.fileId} \cup {row}

\* the IndexedFile indexFile builds
indexedFileRow(w, f, c, ts) ==
    [fileId |-> generateFileId(w, f),
     workspaceId |-> workspaceIdOf(w),
     folderId |-> generateFolderId(workspaceIdOf(w), extractFolderPath(f)),
     filePath |-> f,
     md5Hash |-> calculateMD5(c),
     lastIndexedAt |-> ts]

\* faulty variant: the DELETE on indexed_files_v1 has no WHERE clause
deleteEveryFile(w) == {}

\* the three DELETE statements of deleteWorkspaceIndex
deleteWorkspaceChunks(w) == {c \in chunks : c.workspacePath # w}
deleteWorkspaceFiles(w) == {r \in files : r.workspaceId # workspaceIdOf(w)}
deleteWorkspaceFolders(w) == {r \in folders : r.workspaceId # workspaceIdOf(w)}

-----------------------------------------------------------------------------
(* IndexingService: tasks *)

Tasks == {"t1", "t2"}
RunOps == {"indexWorkspace", "indexFiles"}

\* Fields of a task beyond the locals of the code: errs counts the per-file errors
\* a run has caught, last is how the latest indexFile call ended ("skipped",
\* "indexed", "threw"), before is the store when the call began, and a finished
\* call keeps its locals until the caller takes the result.
NoStore == [workspaces |-> {}, folders |-> {}, files |-> {}, chunks |-> {}]

StoreNow == [workspaces |-> workspaces, folders |-> folders, files |-> files, chunks |-> chunks]

IdleTask ==
    [op |-> "idle", pc |-> "idle", ws |-> NoPath, list |-> <<>>, i |-> 0,
     file |-> NoPath, content |-> "none", k |-> 0, ts |-> 0, errs |-> 0,
     rows |-> {}, entries |-> {}, outcome |-> "none",
     last |-> "none", before |-> NoStore,
     folder |-> NoRow, cancel |-> FALSE, cancelAt |-> 0, cancelMid |-> FALSE]

IdleStatus ==
    [isIndexing |-> FALSE, totalFiles |-> 0, processedFiles |-> 0, currentFile |-> NoPath]

\* the call has returned (outcome "ok") or thrown ("failed", "rejected")
Done(tk, outcome) ==
    [tk EXCEPT !.pc = "done", !.k = 0, !.outcome = outcome]

\* faulty variant: the partial status replaces the status instead of being merged into it
updateStatusReplaces(st, partial) ==
    [x \in DOMAIN st |-> IF x \in DOMAIN partial THEN partial[x] ELSE IdleStatus[x]]

\* updateStatus(partial), then statusEmitter.fire
updateStatus(st, partial) == [x \in DOMAIN st |-> IF x \in DOMAIN partial THEN partial[x] ELSE st[x]]

\* faulty variant: the finally block leaves currentFile set
finallyKeepsCurrentFile(st) == updateStatus(st, [isIndexing |-> FALSE])

\* the finally block of indexWorkspace and indexFiles
finallyStatus(st) == updateStatus(st, [isIndexing |-> FALSE, currentFile |-> NoPath])

\* the top of the for loop: the next file's indexFile call up to its first await,
\* or the end of the loop and the finally block
loopTop(tk, st) ==
    IF tk.i < Len(tk.list)
      THEN [task |-> [tk EXCEPT !.file = tk.list[tk.i + 1], !.pc = "if_read",
                               !.content = "none", !.k = 0, !.ts = 0, !.rows = {}],
            status |-> updateStatus(st, [currentFile |-> getRelativePath(tk.ws, tk.list[tk.i + 1])])]
      ELSE [task |-> Done([tk EXCEPT !.file = NoPath, !.content = "none", !.ts = 0, !.rows = {}],
                          "ok"),
            status |-> finallyStatus(st)]

\* faulty variant: the loop does not read the token
reindexLoopIgnoresToken(tk) ==
    IF tk.i < Len(tk.list)
      THEN [tk EXCEPT !.file = tk.list[tk.i + 1], !.pc = "if_read",
                      !.content = "none", !.k = 0, !.ts = 0, !.rows = {}]
      ELSE Done([tk EXCEPT !.file = NoPath, !.content = "none", !.ts = 0, !.rows = {}], "ok")

\* the top of the for loop of the reindexFolder command: the token is read, then
\* the next file's indexFile call up to its first await; after the loop (or the
\* break) the tree is refreshed and the command returns
reindexLoopTop(tk) ==
    IF tk.i < Len(tk.list) /\ ~tk.cancel
      THEN [tk EXCEPT !.file = tk.list[tk.i + 1], !.pc = "if_read",
                      !.content = "none", !.k = 0, !.ts = 0, !.rows = {}]
      ELSE Done([tk EXCEPT !.file = NoPath, !.content = "none", !.ts = 0, !.rows = {}], "ok")

\* faulty variant: the loop has no try/catch, so a throwing indexFile ends the run
afterIndexFileUncaught(tk, st, how) ==
    IF tk.op \in RunOps /\ how = "threw"
      THEN [task |-> Done([tk EXCEPT !.last = how, !.errs = tk.errs + 1], "failed"),
            status |-> finallyStatus(st)]
    ELSE IF tk.op \in RunOps
      THEN loopTop([tk EXCEPT !.i = tk.i + 1, !.last = how],
                   updateStatus(st, [processedFiles |-> tk.i + 1]))
      ELSE [task |-> Done([tk EXCEPT !.last = how], IF how = "threw" THEN "failed" ELSE "ok"),
            status |-> st]

\* indexFile has returned (ok) or thrown: the catch of the run's loop and
\* updateStatus({processedFiles: i + 1}); the loop of reindexFolder, which has no
\* catch; or the end of a direct call
afterIndexFile(tk, st, how) ==
    IF tk.op \in RunOps
      THEN loopTop([tk EXCEPT !.i = tk.i + 1, !.last = how,
                              !.errs = IF how = "threw" THEN tk.errs + 1 ELSE tk.errs],
                   updateStatus(st, [processedFiles |-> tk.i + 1]))
    ELSE IF tk.op = "reindexFolder" /\ how # "threw"
      THEN [task |-> reindexLoopTop([tk EXCEPT !.i = tk.i + 1, !.last = how]), status |-> st]
      ELSE [task |-> Done([tk EXCEPT !.last = how], IF how = "threw" THEN "failed" ELSE "ok"),
            status |-> st]

\* the orderings of a set of files
Orderings(S) ==
    {q \in [1..Cardinality(S) -> S] : \A a, b \in 1..Cardinality(S) : a # b => q[a] # q[b]}

\* the file lists a caller may pass to indexFiles
FileLists == UNION {Orderings(S) : S \in SUBSET Files}

-----------------------------------------------------------------------------
(* IndexingService.indexWorkspace and indexFiles *)

\* faulty variant: the guard is missing
guardMissing == FALSE

\* the guard at the top of indexWorkspace and indexFiles
alreadyIndexing == status.isIndexing

CanStart(t) == task[t].pc = "idle" /\ now < MaxClock

\* indexWorkspace up to its first await (getWorkspaceFiles)
StartIndexWorkspace(t, w) ==
    /\ CanStart(t)
    /\ ~alreadyIndexing
    /\ status' = updateStatus(status, [isIndexing |-> TRUE, processedFiles |-> 0, totalFiles |-> 0])
    /\ task' = [task EXCEPT ![t] = [IdleTask EXCEPT !.op = "indexWorkspace", !.pc = "enum", !.ws = w]]
    /\ UNCHANGED <<disk, now, storeVars, watcherVars, otherVars>>

\* getWorkspaceFiles resolves with the files on disk below the workspace, or rejects
EnumerateFiles(t) ==
    /\ task[t].pc = "enum"
    /\ \/ \E list \in Orderings({f \in AllFiles : IsUnder(task[t].ws, f) /\ disk[f] # "missing"}) :
            LET nxt == loopTop([task[t] EXCEPT !.list = list, !.i = 0],
                               updateStatus(status, [totalFiles |-> Len(list)]))
            IN /\ task' = [task EXCEPT ![t] = nxt.task]
               /\ status' = nxt.status
       \/ /\ task' = [task EXCEPT ![t] = Done(task[t], "failed")]
          /\ status' = finallyStatus(status)
    /\ UNCHANGED <<disk, now, storeVars, watcherVars, otherVars>>

\* indexFiles up to the first await of its first indexFile call
StartIndexFiles(t, w, list) ==
    /\ CanStart(t)
    /\ ~alreadyIndexing
    /\ \A n \in 1..Len(list) : IsUnder(w, list[n])
    /\ LET nxt == loopTop([IdleTask EXCEPT !.op = "indexFiles", !.ws = w, !.list = list],
                          updateStatus(status, [isIndexing |-> TRUE, totalFiles |-> Len(list),
                                                processedFiles |-> 0]))
       IN /\ task' = [task EXCEPT ![t] = nxt.task]
          /\ status' = nxt.status
    /\ UNCHANGED <<disk, now, storeVars, watcherVars, otherVars>>

\* a call made while a run is active: throw new Error('Indexing already in progress')
RejectStart(t, op, w) ==
    /\ task[t].pc = "idle"
    /\ alreadyIndexing
    /\ task' = [task EXCEPT ![t] = Done([IdleTask EXCEPT !.op = op, !.ws = w], "rejected")]
    /\ UNCHANGED <<disk, now, storeVars, status, watcherVars, otherVars>>

-----------------------------------------------------------------------------
(* IndexingService.indexFile *)

InIndexFile(t) == task[t].op \in RunOps \cup {"indexFile", "reindexFolder"}

\* a direct call (file watcher timer, reindexFile and reindexFolder commands)
StartIndexFile(t, w, f) ==
    /\ CanStart(t)
    /\ IsUnder(w, f)
    /\ task' = [task EXCEPT ![t] = [IdleTask EXCEPT !.op = "indexFile", !.pc = "if_read",
                                                    !.ws = w, !.file = f, !.before = StoreNow]]
    /\ UNCHANGED <<disk, now, storeVars, status, watcherVars, otherVars>>

Continue(t, nxt) ==
    /\ task' = [task EXCEPT ![t] = nxt.task]
    /\ status' = nxt.status

\* readFileContent resolves or rejects; calculateMD5; getIndexedFile is called
IndexFileRead(t) ==
    /\ InIndexFile(t) /\ task[t].pc = "if_read"
    /\ IF disk[task[t].file] = "missing"
         THEN Continue(t, afterIndexFile(task[t], status, "threw"))
         ELSE /\ task' = [task EXCEPT ![t].content = disk[task[t].file], ![t].pc = "if_lookup"]
              /\ UNCHANGED status
    /\ UNCHANGED <<disk, now, storeVars, watcherVars, otherVars>>

\* faulty variant: the skip test compares the row's hash with a hash of something else
skipHashOfOther(c) == <<"md5", "other">>

\* the hash the skip test compares with the row's
skipHash(c) == calculateMD5(c)

\* getIndexedFile resolves: skip on an equal hash, else go on to delete or to index
IndexFileLookup(t) ==
    /\ InIndexFile(t) /\ task[t].pc = "if_lookup"
    /\ LET existingFile == getIndexedFile(generateFileId(task[t].ws, task[t].file))
       IN IF existingFile # {} /\ \A r \in existingFile : r.md5Hash = skipHash(task[t].content)
            THEN Continue(t, afterIndexFile(task[t], status, "skipped"))
            ELSE /\ task' = [task EXCEPT ![t].rows = existingFile,
                                         ![t].pc = IF existingFile # {} THEN "if_delete" ELSE "if_ws"]
                 /\ UNCHANGED status
    /\ UNCHANGED <<disk, now, storeVars, watcherVars, otherVars>>

\* deleteFileChunks resolves; getOrCreateWorkspaceId is called
IndexFileDelete(t) ==
    /\ InIndexFile(t) /\ task[t].pc = "if_delete"
    /\ chunks' = deleteFileChunks(generateFileId(task[t].ws, task[t].file))
    /\ task' = [task EXCEPT ![t].pc = "if_ws"]
    /\ UNCHANGED <<disk, now, workspaces, folders, files, status, watcherVars, otherVars>>

\* Date.now() when the IndexedFile object is built, before upsertIndexedFile is called
stamp(tk) == [tk EXCEPT !.ts = now, !.pc = "if_upsert"]

\* getOrCreateWorkspaceId resolves; smartChunk; addChunks is called when there are chunks
IndexFileWorkspace(t) ==
    /\ InIndexFile(t) /\ task[t].pc = "if_ws"
    /\ workspaces' = getOrCreateWorkspaceId(task[t].ws)
    /\ IF Len(ChunkTable[task[t].content]) > 0
         THEN /\ task' = [task EXCEPT ![t].pc = "if_add", ![t].k = 1]
              /\ UNCHANGED now
         ELSE /\ task' = [task EXCEPT ![t] = stamp(task[t])]
              /\ now' = now + 1
    /\ UNCHANGED <<disk, folders, files, chunks, status, watcherVars, otherVars>>

\* addChunk for chunk k: embedDocument rejects, or the row is written
IndexFileAddChunk(t) ==
    /\ InIndexFile(t) /\ task[t].pc = "if_add"
    /\ \/ /\ chunks' = addChunk(chunkRow(task[t].ws, task[t].file, task[t].content, task[t].k))
          /\ IF task[t].k < Len(ChunkTable[task[t].content])
               THEN /\ task' = [task EXCEPT ![t].k = task[t].k + 1]
                    /\ UNCHANGED now
               ELSE /\ task' = [task EXCEPT ![t] = stamp(task[t])]
                    /\ now' = now + 1
          /\ UNCHANGED status
       \/ /\ Continue(t, afterIndexFile(task[t], status, "threw"))
          /\ UNCHANGED <<chunks, now>>
    /\ UNCHANGED <<disk, workspaces, folders, files, watcherVars, otherVars>>

\* upsertIndexedFile resolves (its folder rows and the file row); indexFile returns
IndexFileUpsert(t) ==
    /\ InIndexFile(t) /\ task[t].pc = "if_upsert"
    /\ folders' = getOrCreateFolderId(workspaceIdOf(task[t].ws), task[t].file, folders)
    /\ files' = upsertIndexedFile(indexedFileRow(task[t].ws, task[t].file, task[t].content, task[t].ts))
    /\ Continue(t, afterIndexFile(task[t], status, "indexed"))
    /\ UNCHANGED <<disk, now, workspaces, chunks, watcherVars, otherVars>>

-----------------------------------------------------------------------------
(* IndexingService.deleteFileIndex *)

\* deleteFileIndex up to its first await (getIndexedFileByPath)
StartDeleteFileIndex(t, f) ==
    /\ task[t].pc = "idle"
    /\ task' = [task EXCEPT ![t] = [IdleTask EXCEPT !.op = "deleteFileIndex", !.pc = "df_lookup",
                                                    !.file = f, !.before = StoreNow]]
    /\ UNCHANGED <<disk, now, storeVars, status, watcherVars, otherVars>>

\* getIndexedFileByPath resolves with rows[0] or null
DeleteFileLookup(t) ==
    /\ task[t].pc = "df_lookup"
    /\ LET found == getIndexedFileByPath(task[t].file)
       IN IF found = {}
            THEN task' = [task EXCEPT ![t] = Done(task[t], "ok")]
            ELSE \E r \in found :
                    task' = [task EXCEPT ![t].rows = {r}, ![t].pc = "df_chunks"]
    /\ UNCHANGED <<disk, now, storeVars, status, watcherVars, otherVars>>

DeleteFileChunksStep(t) ==
    /\ task[t].pc = "df_chunks"
    /\ \E r \in task[t].rows : chunks' = deleteFileChunks(r.fileId)
    /\ task' = [task EXCEPT ![t].pc = "df_row"]
    /\ UNCHANGED <<disk, now, workspaces, folders, files, status, watcherVars, otherVars>>

DeleteFileRowStep(t) ==
    /\ task[t].pc = "df_row"
    /\ \E r \in task[t].rows : files' = deleteIndexedFile(r.fileId)
    /\ task' = [task EXCEPT ![t] = Done(task[t], "ok")]
    /\ UNCHANGED <<disk, now, workspaces, folders, chunks, status, watcherVars, otherVars>>

-----------------------------------------------------------------------------
(* IndexingService.deleteWorkspaceIndex -> VectorDbService.deleteWorkspaceIndex *)

\* up to the first await (getWorkspaceByPath)
StartDeleteWorkspaceIndex(t, w) ==
    /\ task[t].pc = "idle"
    /\ task' = [task EXCEPT ![t] = [IdleTask EXCEPT !.op = "deleteWorkspaceIndex",
                                                    !.pc = "dw_lookup", !.ws = w,
                                                    !.before = StoreNow]]
    /\ UNCHANGED <<disk, now, storeVars, status, watcherVars, otherVars>>

\* getWorkspaceByPath resolves: return when there is no row
DeleteWorkspaceLookup(t) ==
    /\ task[t].pc = "dw_lookup"
    /\ IF task[t].ws \in workspaces
         THEN task' = [task EXCEPT ![t].pc = "dw_chunks"]
         ELSE task' = [task EXCEPT ![t] = Done(task[t], "ok")]
    /\ UNCHANGED <<disk, now, storeVars, status, watcherVars, otherVars>>

\* faulty variant: the file rows are deleted first and the chunks are left
DeleteWorkspaceFilesFirst(t) ==
    /\ task[t].pc = "dw_chunks"
    /\ files' = deleteWorkspaceFiles(task[t].ws)
    /\ task' = [task EXCEPT ![t].pc = "dw_files"]
    /\ UNCHANGED <<disk, now, workspaces, folders, chunks, status, watcherVars, otherVars>>

DeleteWorkspaceChunksStep(t) ==
    /\ task[t].pc = "dw_chunks"
    /\ chunks' = deleteWorkspaceChunks(task[t].ws)
    /\ task' = [task EXCEPT ![t].pc = "dw_files"]
    /\ UNCHANGED <<disk, now, workspaces, folders, files, status, watcherVars, otherVars>>

DeleteWorkspaceFilesStep(t) ==
    /\ task[t].pc = "dw_files"
    /\ files' = deleteWorkspaceFiles(task[t].ws)
    /\ task' = [task EXCEPT ![t].pc = "dw_folders"]
    /\ UNCHANGED <<disk, now, workspaces, folders, chunks, status, watcherVars, otherVars>>

DeleteWorkspaceFoldersStep(t) ==
    /\ task[t].pc = "dw_folders"
    /\ folders' = deleteWorkspaceFolders(task[t].ws)
    /\ task' = [task EXCEPT ![t] = Done(task[t], "ok")]
    /\ UNCHANGED <<disk, now, workspaces, files, chunks, status, watcherVars, otherVars>>

\* one of the three DELETE statements rejects: deleteWorkspaceIndex throws with
\* the statements before it done and the ones after it not run
DeleteWorkspaceStepThrows(t) ==
    /\ task[t].pc \in {"dw_chunks", "dw_files", "dw_folders"}
    /\ task' = [task EXCEPT ![t] = Done(task[t], "failed")]
    /\ UNCHANGED <<disk, now, storeVars, status, watcherVars, otherVars>>

-----------------------------------------------------------------------------
(* IndexingService.getIndexEntries *)

\* up to the first await; w = NoPath asks for every workspace
StartGetIndexEntries(t, w) ==
    /\ task[t].pc = "idle"
    /\ task' = [task EXCEPT ![t] = [IdleTask EXCEPT !.op = "getIndexEntries", !.pc = "ge_fetch",
                                                    !.ws = w, !.before = StoreNow]]
    /\ UNCHANGED <<disk, now, storeVars, status, watcherVars, otherVars>>

\* getIndexEntries returns its entries: to its caller, or to reindexStaleFiles,
\* which goes on with them
getEntriesReturns(tk) ==
    IF tk.op = "reindexStaleFiles" THEN [tk EXCEPT !.pc = "rs_filter"] ELSE Done(tk, "ok")

\* getIndexedFilesForWorkspace or getAllIndexedFiles resolves
GetEntriesFetch(t) ==
    /\ task[t].pc = "ge_fetch"
    /\ LET rows == IF task[t].ws # NoPath THEN getIndexedFilesForWorkspace(task[t].ws) ELSE files
       IN IF rows = {}
            THEN task' = [task EXCEPT ![t] = getEntriesReturns(task[t])]
            ELSE task' = [task EXCEPT ![t].rows = rows, ![t].pc = "ge_entry"]
    /\ UNCHANGED <<disk, now, storeVars, status, watcherVars, otherVars>>

\* faulty variant: an unreadable file is reported as fresh
staleUnlessMissing(row) ==
    disk[row.filePath] # "missing" /\ calculateMD5(disk[row.filePath]) # row.md5Hash

\* the isStale flag of one entry: the live file against the row's hash
isStaleNow(row) == disk[row.filePath] = "missing" \/ calculateMD5(disk[row.filePath]) # row.md5Hash

\* one turn of the loop: read the file, compare the hashes, count the chunks, push the entry
GetEntriesEntry(t) ==
    /\ task[t].pc = "ge_entry"
    /\ \E r \in task[t].rows :
         LET entry == [fileId |-> r.fileId, filePath |-> r.filePath, isStale |-> isStaleNow(r),
                       lastIndexedAt |-> r.lastIndexedAt,
                       chunkCount |-> getFileChunkCount(r.fileId)]
             tk == [task[t] EXCEPT !.rows = task[t].rows \ {r},
                                   !.entries = task[t].entries \cup {entry}]
         IN task' = [task EXCEPT ![t] = IF tk.rows = {} THEN getEntriesReturns(tk) ELSE tk]
    /\ UNCHANGED <<disk, now, storeVars, status, watcherVars, otherVars>>

-----------------------------------------------------------------------------
(* IndexingService.reindexStaleFiles *)

\* a re-index (of the stale files, of a folder) starts at most this many clock
\* readings after the start
MaxReindexClock == 3

\* up to the first await of the getIndexEntries(workspacePath) it calls
StartReindexStaleFiles(t, w) ==
    /\ task[t].pc = "idle" /\ now < MaxReindexClock
    /\ task' = [task EXCEPT ![t] = [IdleTask EXCEPT !.op = "reindexStaleFiles", !.pc = "ge_fetch",
                                                    !.ws = w, !.before = StoreNow]]
    /\ UNCHANGED <<disk, now, storeVars, status, watcherVars, otherVars>>

\* faulty variant: no entry is taken as stale
staleEntriesNone(entries) == {}

\* entries.filter((e) => e.isStale)
staleEntriesOf(entries) == {e \in entries : e.isStale}

\* getIndexEntries has resolved: return when nothing is stale, else indexFiles
\* on the stale paths, up to the first await of its first indexFile call (or its
\* throw when a run is active)
ReindexStaleIndexFiles(t) ==
    /\ task[t].op = "reindexStaleFiles" /\ task[t].pc = "rs_filter"
    /\ LET staleEntries == staleEntriesOf(task[t].entries)
       IN IF staleEntries = {}
            THEN /\ task' = [task EXCEPT ![t] = Done(task[t], "ok")]
                 /\ UNCHANGED status
          ELSE IF alreadyIndexing
            THEN /\ task' = [task EXCEPT ![t] = Done(task[t], "rejected")]
                 /\ UNCHANGED status
            ELSE \E list \in Orderings({e.filePath : e \in staleEntries}) :
                    Continue(t, loopTop([task[t] EXCEPT !.op = "indexFiles", !.list = list, !.i = 0],
                                        updateStatus(status, [isIndexing |-> TRUE,
                                                              totalFiles |-> Len(list),
                                                              processedFiles |-> 0])))
    /\ UNCHANGED <<disk, now, storeVars, watcherVars, otherVars>>

-----------------------------------------------------------------------------
(* The caller and the environment *)

\* the caller takes the result of a finished call
Return(t) ==
    /\ task[t].pc = "done"
    /\ task' = [task EXCEPT ![t] = IdleTask]
    /\ UNCHANGED <<disk, now, storeVars, status, watcherVars, otherVars>>

-----------------------------------------------------------------------------
(* The reindexFolder command of the sidebar, and cancellation *)

\* SELECT ... FROM indexed_files_v1 WHERE folder_id = $1
getFilesByFolderId(folderId) == {r \in files : r.folderId = folderId}

\* the workspace path of a folder's rows (IndexedFile.workspacePath)
folderWorkspacePath(folderId) == folderId[1][2]

\* semantic-search.reindexFolder up to its first await (getFilesByFolderId)
StartReindexFolder(t, folderId) ==
    /\ task[t].pc = "idle" /\ now < MaxReindexClock
    /\ task' = [task EXCEPT ![t] = [IdleTask EXCEPT !.op = "reindexFolder", !.pc = "rf_fetch",
                                                    !.folder = folderId,
                                                    !.ws = folderWorkspacePath(folderId)]]
    /\ UNCHANGED <<disk, now, storeVars, status, watcherVars, otherVars>>

\* getFilesByFolderId resolves: nothing to do, or withProgress runs the loop
ReindexFolderFetch(t) ==
    /\ task[t].op = "reindexFolder" /\ task[t].pc = "rf_fetch"
    /\ LET rows == getFilesByFolderId(task[t].folder)
       IN IF rows = {}
            THEN task' = [task EXCEPT ![t] = Done(task[t], "ok")]
            ELSE \E list \in Orderings({r.filePath : r \in rows}) :
                    task' = [task EXCEPT ![t] = reindexLoopTop([task[t] EXCEPT !.list = list, !.i = 0])]
    /\ UNCHANGED <<disk, now, storeVars, status, watcherVars, otherVars>>

\* The user asks for the operation in progress to stop. The notification of
\* reindexFolder is cancellable and sets token.isCancellationRequested; the
\* notifications of the commands that call indexWorkspace are not (cancellable:
\* false) and indexWorkspace takes no token, so there the request reaches nothing.
\* cancelAt and cancelMid record the number of files done at that moment and
\* whether a file was in progress. (The notification of reindexFolder is shown
\* after getFilesByFolderId has resolved.)
RequestCancel(t) ==
    /\ task[t].op \in {"reindexFolder", "indexWorkspace"}
    /\ task[t].pc \notin {"idle", "done", "rf_fetch"}
    /\ ~task[t].cancel
    /\ task' = [task EXCEPT ![t].cancel = TRUE, ![t].cancelAt = task[t].i,
                            ![t].cancelMid = (task[t].pc # "enum")]
    /\ UNCHANGED <<disk, now, storeVars, status, watcherVars, otherVars>>

\* the user saves, creates or deletes a file
EditFile(f, c) ==
    /\ disk[f] # c
    /\ disk' = [disk EXCEPT ![f] = c]
    /\ UNCHANGED <<now, storeVars, status, task, watcherVars, otherVars>>

-----------------------------------------------------------------------------
(* FileWatcherService *)

debounceMs == 1000

FileM == <<"p", "node_modules", "m">>
WatchedPaths == Files \cup {FileM}

\* exclude patterns first ('**/node_modules/**'), then the include patterns
shouldIndexFile(f) == \A n \in 1..Len(f) : f[n] # "node_modules"

\* faulty variant: the earlier timer is left armed
keepTimeout(id) == timers

\* clearTimeout(existingTimeout)
clearTimeout(id) == {tm \in timers : tm.id # id}

\* wlog: events counts the events handled (and numbers the timers), changes[f] the
\* change events for f since its last indexFile call or cancellation, lastAt[f]
\* the time of the latest of them.
noteChange(f) ==
    [wlog EXCEPT !.events = wlog.events + 1,
                 !.changes[f] = wlog.changes[f] + 1,
                 !.lastAt[f] = wclock]

\* handleFileChange(uri, 'save' | 'create' | 'rename')
HandleFileChange(f) ==
    /\ watching
    /\ wlog.events < MaxEvents
    /\ IF ~shouldIndexFile(f)
         THEN /\ wlog' = [wlog EXCEPT !.events = wlog.events + 1]
              /\ UNCHANGED <<pendingFiles, timers>>
         ELSE /\ timers' = (IF pendingFiles[f] # 0 THEN clearTimeout(pendingFiles[f]) ELSE timers)
                             \cup {[id |-> wlog.events + 1, file |-> f, due |-> wclock + debounceMs]}
              /\ pendingFiles' = [pendingFiles EXCEPT ![f] = wlog.events + 1]
              /\ wlog' = noteChange(f)
    /\ UNCHANGED <<otherVars, disk, now, storeVars, status, task, watching, wclock, calls>>

\* the timer's callback: pendingFiles.delete(filePath), then indexingService.indexFile
TimerFires(tm) ==
    /\ tm \in timers
    /\ wclock >= tm.due
    /\ timers' = timers \ {tm}
    /\ pendingFiles' = [pendingFiles EXCEPT ![tm.file] = 0]
    /\ calls' = Append(calls, [op |-> "indexFile", file |-> tm.file, at |-> wclock,
                               lastAt |-> wlog.lastAt[tm.file],
                               coalesced |-> wlog.changes[tm.file],
                               ev |-> tm.id, cancelled |-> 0])
    /\ wlog' = [wlog EXCEPT !.changes[tm.file] = 0]
    /\ UNCHANGED <<otherVars, disk, now, storeVars, status, task, watching, wclock>>

\* faulty variant: the pending timer is not cleared
HandleFileDeleteKeepsTimer(f) ==
    /\ watching
    /\ wlog.events < MaxEvents
    /\ UNCHANGED <<pendingFiles, timers>>
    /\ calls' = Append(calls, [op |-> "deleteFileIndex", file |-> f, at |-> wclock,
                               lastAt |-> wlog.lastAt[f], coalesced |-> 0,
                               ev |-> wlog.events + 1, cancelled |-> wlog.changes[f]])
    /\ wlog' = [wlog EXCEPT !.events = wlog.events + 1, !.changes[f] = 0]
    /\ UNCHANGED <<otherVars, disk, now, storeVars, status, task, watching, wclock>>

\* handleFileDelete(uri); ev is the number of the event that caused a call (for
\* indexFile, the change event that armed the timer), cancelled the number of
\* change events whose timer the delete cleared
HandleFileDelete(f) ==
    /\ watching
    /\ wlog.events < MaxEvents
    /\ IF pendingFiles[f] # 0
         THEN /\ timers' = clearTimeout(pendingFiles[f])
              /\ pendingFiles' = [pendingFiles EXCEPT ![f] = 0]
         ELSE UNCHANGED <<pendingFiles, timers>>
    /\ calls' = Append(calls, [op |-> "deleteFileIndex", file |-> f, at |-> wclock,
                               lastAt |-> wlog.lastAt[f], coalesced |-> 0,
                               ev |-> wlog.events + 1, cancelled |-> wlog.changes[f]])
    /\ wlog' = [wlog EXCEPT !.events = wlog.events + 1, !.changes[f] = 0]
    /\ UNCHANGED <<otherVars, disk, now, storeVars, status, task, watching, wclock>>

\* stop(): every pending timer is cleared and the subscriptions are disposed
StopWatcher ==
    /\ watching
    /\ watching' = FALSE
    /\ timers' = {tm \in timers : \A f \in WatchedPaths : pendingFiles[f] # tm.id}
    /\ pendingFiles' = [f \in WatchedPaths |-> 0]
    /\ wlog' = [wlog EXCEPT !.changes = [f \in WatchedPaths |-> 0]]
    /\ UNCHANGED <<otherVars, disk, now, storeVars, status, task, wclock, calls>>

\* time passes; a timer that is due runs before the clock moves on
Tick ==
    /\ wclock + TickMs <= MaxWatchTime
    /\ \A tm \in timers : wclock < tm.due
    /\ wclock' = wclock + TickMs
    /\ UNCHANGED <<otherVars, disk, now, storeVars, status, task, watching, pendingFiles, timers, calls, wlog>>

-----------------------------------------------------------------------------
(* VectorDbService called on its own, with the connection open or null *)

NoCall == [op |-> "none", open |-> FALSE, result |-> "none", ws |-> NoPath, value |-> NoRow]

\* how a call ends: the kind of value it resolves with ("row", "null", "rows",
\* "empty", "count", "zero", "id", "void") or the error it rejects with

\* runSQL, querySQL and the methods that test this.connection themselves
guarded(r) == IF connection THEN r ELSE "Database not initialized"

\* the methods that use this.connection.run without a test: on null, a TypeError
unguarded(r) == IF connection THEN r ELSE "TypeError"

\* the methods whose try/catch turns every error into a fallback value
swallowed(r, fallback) == IF connection THEN r ELSE fallback

oneOrNull(rows) == IF rows = {} THEN "null" ELSE "row"
listOf(rows) == IF rows = {} THEN "empty" ELSE "rows"
countOf(rows) == IF rows = {} THEN "zero" ELSE "count"

\* getWorkspaceByPath: the SELECT sits in a try block whose catch returns null
getWorkspaceByPath(w) == swallowed(oneOrNull({x \in workspaces : x = w}), "null")

\* the public methods, with a workspace path w (NoPath: '' or left out) and a file f
dbResult(op, w, f) ==
    CASE op = "getIndexedFile" -> guarded(oneOrNull(getIndexedFile(generateFileId(w, f))))
      [] op = "getIndexedFileByPath" -> guarded(oneOrNull(getIndexedFileByPath(f)))
      [] op = "getIndexedFilesForWorkspace" -> guarded(listOf(getIndexedFilesForWorkspace(w)))
      [] op = "getAllIndexedFiles" -> guarded(listOf(files))
      [] op = "getFileChunkCount" -> guarded(countOf({c \in chunks : c.fileId = generateFileId(w, f)}))
      [] op = "getTotalChunkCount" -> guarded(countOf(chunks))
      [] op = "clearAllChunks" -> guarded("void")
      [] op = "upsertIndexedFile" -> guarded("void")
      [] op = "deleteIndexedFile" -> guarded("void")
      [] op = "deleteWorkspaceIndex" -> guarded("void")
      [] op = "getIndexedFileCount" ->
           IF w = NoPath THEN guarded(countOf(files))
           ELSE IF getWorkspaceByPath(w) = "null" THEN "zero"
           ELSE guarded(countOf(getIndexedFilesForWorkspace(w)))
      [] op = "addChunk" -> unguarded("void")
      [] op = "search" -> unguarded(listOf({c \in chunks : w = NoPath \/ c.workspacePath = w}))
      [] op = "deleteFileChunks" -> unguarded("void")
      [] op = "getOrCreateWorkspaceId" -> IF w = NoPath THEN "id" ELSE unguarded("id")
      [] op = "getWorkspaceByPath" -> getWorkspaceByPath(w)
      [] op = "getAllWorkspaces" -> swallowed(listOf(workspaces), "empty")
      [] op = "updateWorkspaceStatus" -> swallowed("void", "void")
      [] op = "getFolderHierarchy" ->
           IF getWorkspaceByPath(w) = "null" THEN "empty"
           ELSE guarded(listOf({r \in folders : r.workspaceId = workspaceIdOf(w)}))
      [] op = "compactIndex" -> swallowed("void", "void")

DbOps ==
    {"getIndexedFile", "getIndexedFileByPath", "getIndexedFilesForWorkspace", "getAllIndexedFiles",
     "getFileChunkCount", "getTotalChunkCount", "clearAllChunks", "upsertIndexedFile",
     "deleteIndexedFile", "deleteWorkspaceIndex", "getIndexedFileCount", "addChunk", "search",
     "deleteFileChunks", "getOrCreateWorkspaceId", "getWorkspaceByPath", "getAllWorkspaces",
     "updateWorkspaceStatus", "getFolderHierarchy", "compactIndex"}

\* getOrCreateWorkspaceId: '' for no path, else the id of the row found or the
\* id computed from the path for the row inserted
workspaceIdReturned(w) ==
    IF w = NoPath THEN NoRow
    ELSE IF getWorkspaceByPath(w) = "row" THEN CHOOSE id \in {workspaceIdOf(x) : x \in workspaces \cap {w}} : TRUE
    ELSE workspaceIdOf(w)

\* the tables after a call made with the connection open
dbEffect(op, w, f, c, k) ==
    CASE op = "clearAllChunks" -> [StoreNow EXCEPT !.chunks = {}]
      [] op = "upsertIndexedFile" ->
           [StoreNow EXCEPT !.folders = getOrCreateFolderId(workspaceIdOf(w), f, folders),
                            !.files = upsertIndexedFile(indexedFileRow(w, f, c, now))]
      [] op = "deleteIndexedFile" -> [StoreNow EXCEPT !.files = deleteIndexedFile(generateFileId(w, f))]
      [] op = "deleteWorkspaceIndex" ->
           IF w \in workspaces
             THEN [StoreNow EXCEPT !.chunks = deleteWorkspaceChunks(w),
                                   !.files = deleteWorkspaceFiles(w),
                                   !.folders = deleteWorkspaceFolders(w)]
             ELSE StoreNow
      [] op = "addChunk" -> [StoreNow EXCEPT !.chunks = addChunk(chunkRow(w, f, c, k))]
      [] op = "deleteFileChunks" -> [StoreNow EXCEPT !.chunks = deleteFileChunks(generateFileId(w, f))]
      [] op = "getOrCreateWorkspaceId" -> [StoreNow EXCEPT !.workspaces = getOrCreateWorkspaceId(w)]
      [] OTHER -> StoreNow

\* initialize(): the connection is opened and the schema is in place
DbInitialize ==
    /\ ~connection
    /\ connection' = TRUE
    /\ UNCHANGED <<disk, now, storeVars, status, task, watcherVars, dbcall, chunker, searching, embedding, chromaProc>>

\* close()
DbClose ==
    /\ connection
    /\ connection' = FALSE
    /\ UNCHANGED <<disk, now, storeVars, status, task, watcherVars, dbcall, chunker, searching, embedding, chromaProc>>

\* one call of a public method, from entry to its result
DbCall(op, w, f, c, k) ==
    /\ w # NoPath \/ op \in {"getIndexedFileCount", "search", "getOrCreateWorkspaceId",
                              "getAllIndexedFiles", "getTotalChunkCount", "clearAllChunks",
                              "getAllWorkspaces", "compactIndex"}
    /\ dbcall' = [op |-> op, open |-> connection, result |-> dbResult(op, w, f), ws |-> w,
                  value |-> IF op = "getOrCreateWorkspaceId" /\ dbResult(op, w, f) = "id"
                              THEN workspaceIdReturned(w) ELSE NoRow]
    /\ LET after == IF connection THEN dbEffect(op, w, f, c, k) ELSE StoreNow
       IN /\ workspaces' = after.workspaces
          /\ folders' = after.folders
          /\ files' = after.files
          /\ chunks' = after.chunks
    /\ UNCHANGED <<disk, now, status, task, watcherVars, connection, chunker, searching, embedding, chromaProc>>

\* upsertIndexedFile with one of its awaited statements rejecting: the first n
\* INSERTs of getOrCreateFolderId are done, the rest and the file row are not
DbUpsertThrows(w, f) ==
    /\ connection
    /\ LET inserts == folderInserts(workspaceIdOf(w), f, folders)
       IN \E n \in 0..Len(inserts) : folders' = folders \cup {inserts[i] : i \in 1..n}
    /\ dbcall' = [op |-> "upsertIndexedFile", open |-> TRUE, result |-> "Error", ws |-> w,
                  value |-> NoRow]
    /\ UNCHANGED <<disk, now, workspaces, files, chunks, status, task, watcherVars,
                   connection, chunker, searching, embedding, chromaProc>>

-----------------------------------------------------------------------------
(* splitIntoTokenChunks on any content, one iteration of its loop at a time *)

\* A content is a sequence of pieces: 0 is a line break, n > 0 a word of n tokens.
\* Contents of up to MaxPieces pieces are tried, and the one long line of the test.
MaxPieces == 6
Pieces == {0, 100, 300}
LongLineTokens == 5000
LongLine == <<LongLineTokens>>
ChunkerContents == UNION {[1..n -> Pieces] : n \in 0..MaxPieces} \cup {LongLine}

\* the configurations tried: values below, inside and above the clamps
ChunkMaxTokensTried == {100, 300, 2048, 5000}
ChunkOverlapTokensTried == {0, 50, 256, 5000}

\* the loop is followed for at most this many chunks
MaxChunkSteps == 8

\* content.split('\n') and enc.encode(line).length: the token count of each line;
\* a content with no line break, the empty one included, is one line
RECURSIVE splitLines(_, _, _, _)
splitLines(content, i, lineTokens, acc) ==
    IF i > Len(content) THEN Append(acc, lineTokens)
    ELSE IF content[i] = 0 THEN splitLines(content, i + 1, 0, Append(acc, lineTokens))
    ELSE splitLines(content, i + 1, lineTokens + content[i], acc)

contentLines(content) == splitLines(content, 1, 0, <<>>)

\* encoding: the module-level tokenizer has been constructed by an earlier call;
\* tiktoken: require('js-tiktoken') succeeds
ChunkerIdle ==
    [pc |-> "idle", content |-> <<>>, chunkMaxTokens |-> 0, chunkOverlapTokens |-> 0,
     lines |-> <<>>, maxTokens |-> 0, overlapTokens |-> 0, startLine |-> 0, chunks |-> <<>>,
     encoding |-> FALSE, tiktoken |-> TRUE]

\* a call splitIntoTokenChunks(content, config) that has not run yet
chunkerCalled(content, chunkMaxTokens, chunkOverlapTokens, encoding, tiktoken) ==
    [ChunkerIdle EXCEPT !.pc = "entry", !.content = content,
                        !.chunkMaxTokens = chunkMaxTokens,
                        !.chunkOverlapTokens = chunkOverlapTokens,
                        !.encoding = encoding, !.tiktoken = tiktoken]

\* getEncoding(): the cached tokenizer, or the one require('js-tiktoken') builds;
\* the require is not in a try block, so its error leaves the function
getEncoding(ck) == IF ck.encoding \/ ck.tiktoken THEN "encoding" ELSE "throws"

\* faulty variant: chunkMaxTokens is not clamped to [256, 2048]
chunkerEntryNoClamp(ck) ==
    LET lines == contentLines(ck.content)
        totalTokens == SumTo(lines, Len(lines))
        maxTokens == ck.chunkMaxTokens
        overlapTokens == Max(0, Min(ck.chunkOverlapTokens, maxTokens - 1))
        entered == [ck EXCEPT !.lines = lines, !.maxTokens = maxTokens,
                              !.overlapTokens = overlapTokens, !.encoding = TRUE]
    IN IF getEncoding(ck) = "throws" THEN [ck EXCEPT !.pc = "threw"]
       ELSE IF Len(lines) = 0 THEN [entered EXCEPT !.pc = "done"]
       ELSE IF totalTokens <= maxTokens
         THEN [entered EXCEPT !.pc = "done",
                              !.chunks = << [lineStart |-> 1, lineEnd |-> Len(lines),
                                             tokenStart |-> 0, tokenEnd |-> totalTokens] >>]
       ELSE [entered EXCEPT !.pc = "loop"]

\* from the entry to the first test of the while loop: the lines, the clamps, and
\* the two early returns
chunkerEntry(ck) ==
    LET lines == contentLines(ck.content)
        totalTokens == SumTo(lines, Len(lines))
        maxTokens == Min(Max(ck.chunkMaxTokens, MinChunkTokens), MaxChunkTokens)
        overlapTokens == Max(0, Min(ck.chunkOverlapTokens, maxTokens - 1))
        entered == [ck EXCEPT !.lines = lines, !.maxTokens = maxTokens,
                              !.overlapTokens = overlapTokens, !.encoding = TRUE]
    IN IF getEncoding(ck) = "throws" THEN [ck EXCEPT !.pc = "threw"]
       ELSE IF Len(lines) = 0 THEN [entered EXCEPT !.pc = "done"]
       ELSE IF totalTokens <= maxTokens
         THEN [entered EXCEPT !.pc = "done",
                              !.chunks = << [lineStart |-> 1, lineEnd |-> Len(lines),
                                             tokenStart |-> 0, tokenEnd |-> totalTokens] >>]
       ELSE [entered EXCEPT !.pc = "loop"]

\* faulty variant: the line that takes the window over the budget stays in it
windowEndKeepsLast(lines, startLine, maxTokens) ==
    LET grown == growWindow(lines, startLine, startLine + 1, maxTokens) + 1
        capped == IF grown > Len(lines) THEN Len(lines) ELSE grown
    IN IF capped <= startLine THEN Min(startLine + 1, Len(lines)) ELSE capped

\* the exclusive end line of the chunk that starts at startLine, after the two caps
windowEnd(lines, startLine, maxTokens) ==
    LET grown == growWindow(lines, startLine, startLine + 1, maxTokens)
        capped == IF grown > Len(lines) THEN Len(lines) ELSE grown
    IN IF capped <= startLine THEN Min(startLine + 1, Len(lines)) ELSE capped

\* chunks.push, the break at the last line, and the new startLine
pushChunk(ck, endLineExclusive, nextStartLine) ==
    LET chunk == [lineStart |-> ck.startLine + 1,
                  lineEnd |-> endLineExclusive,
                  tokenStart |-> tokenStarts(ck.lines, ck.startLine),
                  tokenEnd |-> tokenEnds(ck.lines, endLineExclusive - 1)]
    IN IF endLineExclusive >= Len(ck.lines)
         THEN [ck EXCEPT !.chunks = Append(@, chunk), !.pc = "done"]
         ELSE [ck EXCEPT !.chunks = Append(@, chunk), !.startLine = nextStartLine]

\* faulty variant: the test nextStartLine <= startLine is missing
chunkerIterationStalls(ck) ==
    LET endLineExclusive == windowEnd(ck.lines, ck.startLine, ck.maxTokens)
        desired == Max(tokenStarts(ck.lines, ck.startLine),
                       tokenEnds(ck.lines, endLineExclusive - 1) - ck.overlapTokens)
    IN pushChunk(ck, endLineExclusive,
                 IF ck.overlapTokens <= 0 THEN endLineExclusive
                 ELSE overlapStart(ck.lines, ck.startLine + 1, endLineExclusive,
                                   desired, endLineExclusive - 1))

\* one iteration of the while loop, entered with startLine < lines.length
chunkerIteration(ck) ==
    LET endLineExclusive == windowEnd(ck.lines, ck.startLine, ck.maxTokens)
    IN pushChunk(ck, endLineExclusive,
                 nextStart(ck.lines, ck.startLine, endLineExclusive, ck.overlapTokens))

ChunkerEntry ==
    /\ chunker.pc = "entry"
    /\ chunker' = chunkerEntry(chunker)
    /\ UNCHANGED <<disk, now, storeVars, status, task, watcherVars, connection, dbcall, searching, embedding, chromaProc>>

\* the while test and, when it holds, one iteration
ChunkerStep ==
    /\ chunker.pc = "loop"
    /\ Len(chunker.chunks) < MaxChunkSteps
    /\ chunker' = IF chunker.startLine < Len(chunker.lines)
                    THEN chunkerIteration(chunker)
                    ELSE [chunker EXCEPT !.pc = "done"]
    /\ UNCHANGED <<disk, now, storeVars, status, task, watcherVars, connection, dbcall, searching, embedding, chromaProc>>

-----------------------------------------------------------------------------
(* Search: VectorDbService.search, ChromaService.search and searchInWorkspace,  *)
(* the SearchService in front of either, and the callers of the SearchService  *)

\* the (workspace, file) pairs that may be indexed when a search is made
SearchPairs == {<<WsP, FileA>>, <<WsP, FileB>>, <<WsPS, FileB>>}
SearchCorpus == {chunkRow(pr[1], pr[2], "c1", 1) : pr \in SearchPairs}
SearchCorpusIds == {c.chunkId : c \in SearchCorpus}

\* cosine distances of a chunk to the query, in hundredths
Distances == {0, 50}

MaxResultsTried == {1, 2}

\* a glob pattern is <<"base", n>>, a pattern with no slash that names n, or
\* <<"dir", d>>, the pattern d/**; a pattern string is the list of its patterns
PatternsTried ==
    {<<>>, << <<"base", "b">> >>, << <<"dir", "s">>, <<"base", "a">> >>}

\* minimatch(relativePath, pattern, { matchBase: true })
minimatch(relativePath, pattern) ==
    IF pattern[1] = "base"
      THEN relativePath # <<>> /\ relativePath[Len(relativePath)] = pattern[2]
      ELSE Len(relativePath) >= 2 /\ relativePath[1] = pattern[2]

\* String.prototype.startsWith on paths
startsWith(f, w) == Len(w) <= Len(f) /\ SubSeq(f, 1, Len(w)) = w

\* r.filePath.replace(workspacePath, '').replace(/^[/\\]/, '')
relativeTo(w, f) == IF w # NoPath /\ startsWith(f, w) THEN SubSeq(f, Len(w) + 1, Len(f)) ELSE f

\* a result of yesterday's search, still held by the sidebar
PreviousResult ==
    [chunkId |-> generateChunkId(generateFileId(WsPS, FileC), 1, 2), filePath |-> FileC,
     content |-> <<"c1", 1, 2>>, lineStart |-> 1, lineEnd |-> 2, score |-> 100]

SearchIdle ==
    [pc |-> "idle", backend |-> "vectordb", caller |-> "none", ws |-> NoPath,
     maxResults |-> 0, limit |-> 0, include |-> <<>>, exclude |-> <<>>,
     dist |-> [id \in SearchCorpusIds |-> 0], outcome |-> "none", results |-> <<>>,
     shown |-> <<>>, view |-> "none", lastResults |-> <<>>]

\* the sequences of the rows of S in an order of ascending distance
ByDistance(S, dist) ==
    {o \in Orderings(S) : \A a, b \in 1..Len(o) : a < b => dist[o[a].chunkId] <= dist[o[b].chunkId]}

firstN(q, n) == SubSeq(q, 1, Min(n, Len(q)))

\* faulty variant: the statement has no LIMIT
searchRowsNoLimit(w, limit, dist) ==
    ByDistance(IF w # NoPath THEN {c \in chunks : c.workspacePath = w} ELSE chunks, dist)

\* VectorDbService.search: the rows of SELECT ... [WHERE workspace_path = w]
\* ORDER BY array_cosine_distance(...) LIMIT limit
searchRows(w, limit, dist) ==
    {firstN(o, limit) :
        o \in ByDistance(IF w # NoPath THEN {c \in chunks : c.workspacePath = w} ELSE chunks,
                         dist)}

\* VectorDbService.search: rows.map, with score = 1 - distance; chunkId tells
\* which row the result came from
searchResult(c, dist) ==
    [chunkId |-> c.chunkId, filePath |-> c.filePath, content |-> c.content,
     lineStart |-> c.lineStart, lineEnd |-> c.lineEnd, score |-> 100 - dist[c.chunkId]]

\* ChromaService: a result with score = 1 / (1 + distance)
chromaResult(c, dist) ==
    [chunkId |-> c.chunkId, filePath |-> c.filePath, content |-> c.content,
     lineStart |-> c.lineStart, lineEnd |-> c.lineEnd,
     score |-> (100 * 100) \div (100 + dist[c.chunkId])]

\* collection.query({ queryTexts, nResults }): the nearest nResults documents
chromaQuery(nResults, dist) == {firstN(o, nResults) : o \in ByDistance(chunks, dist)}

\* ChromaService.searchInWorkspace: of nResults * 3 documents, the first nResults
\* whose filePath starts with workspacePath
chromaInWorkspace(docs, w, nResults) ==
    LET inside(c) == startsWith(c.filePath, w)
    IN firstN(SelectSeq(docs, inside), nResults)

mapResults(rows, dist, backend) ==
    [i \in 1..Len(rows) |-> IF backend = "chroma" THEN chromaResult(rows[i], dist)
                            ELSE searchResult(rows[i], dist)]

\* faulty variant: the results are cut to maxResults before they are filtered
performSearchCutsFirst(sr) ==
    LET included(r) == \E i \in 1..Len(sr.include) :
                          minimatch(relativeTo(sr.ws, r.filePath), sr.include[i])
        notExcluded(r) == ~ \E i \in 1..Len(sr.exclude) :
                          minimatch(relativeTo(sr.ws, r.filePath), sr.exclude[i])
        cut == firstN(sr.results, sr.maxResults)
        afterInclude == IF sr.include # <<>> THEN SelectSeq(cut, included) ELSE cut
    IN IF sr.exclude # <<>> THEN SelectSeq(afterInclude, notExcluded) ELSE afterInclude

\* faulty variant: the last maxResults of the filtered results are kept
performSearchKeepsLast(sr) ==
    LET included(r) == \E i \in 1..Len(sr.include) :
                          minimatch(relativeTo(sr.ws, r.filePath), sr.include[i])
        notExcluded(r) == ~ \E i \in 1..Len(sr.exclude) :
                          minimatch(relativeTo(sr.ws, r.filePath), sr.exclude[i])
        afterInclude == IF sr.include # <<>> THEN SelectSeq(sr.results, included) ELSE sr.results
        afterExclude == IF sr.exclude # <<>>
                          THEN SelectSeq(afterInclude, notExcluded) ELSE afterInclude
    IN SubSeq(afterExclude, Max(1, Len(afterExclude) - sr.maxResults + 1), Len(afterExclude))

\* SearchSidebarProvider._performSearch after the search has resolved: the include
\* filter, the exclude filter, results.slice(0, maxResults)
performSearchFilter(sr) ==
    LET included(r) == \E i \in 1..Len(sr.include) :
                          minimatch(relativeTo(sr.ws, r.filePath), sr.include[i])
        notExcluded(r) == ~ \E i \in 1..Len(sr.exclude) :
                          minimatch(relativeTo(sr.ws, r.filePath), sr.exclude[i])
        afterInclude == IF sr.include # <<>> THEN SelectSeq(sr.results, included) ELSE sr.results
        afterExclude == IF sr.exclude # <<>>
                          THEN SelectSeq(afterInclude, notExcluded) ELSE afterInclude
    IN firstN(afterExclude, sr.maxResults)

\* faulty variant: a failed search is delivered as an empty result list
deliverSwallowsFailure(sr) ==
    IF sr.caller = "sidebar"
      THEN [sr EXCEPT !.pc = "done", !.view = "results",
                      !.shown = IF sr.outcome = "failed" THEN <<>> ELSE performSearchFilter(sr),
                      !.lastResults = IF sr.outcome = "failed" THEN <<>>
                                      ELSE performSearchFilter(sr)]
    ELSE IF sr.caller = "tool"
      THEN [sr EXCEPT !.pc = "done", !.shown = sr.results,
                      !.view = IF sr.results = <<>> THEN "noresults" ELSE "found"]
    ELSE [sr EXCEPT !.pc = "done", !.shown = sr.results,
                    !.view = "returned"]

\* what the caller does when the SearchService call has settled: the sidebar's
\* try and catch, the tool's try and catch, or a caller that awaits the call
deliver(sr) ==
    IF sr.caller = "sidebar"
      THEN IF sr.outcome = "failed"
             THEN [sr EXCEPT !.pc = "done", !.view = "error"]
             ELSE [sr EXCEPT !.pc = "done", !.view = "results",
                             !.shown = performSearchFilter(sr),
                             !.lastResults = performSearchFilter(sr)]
    ELSE IF sr.caller = "tool"
      THEN IF sr.outcome = "failed"
             THEN [sr EXCEPT !.pc = "done", !.view = "errortext"]
             ELSE [sr EXCEPT !.pc = "done", !.shown = sr.results,
                             !.view = IF sr.results = <<>> THEN "noresults" ELSE "found"]
    ELSE IF sr.outcome = "failed"
      THEN [sr EXCEPT !.pc = "done", !.view = "rejected"]
      ELSE [sr EXCEPT !.pc = "done", !.shown = sr.results, !.view = "returned"]

\* a caller starts a search: the sidebar asks for maxResults * 2 and shows its
\* loading state, the tool and a direct caller ask for maxResults
\* (SearchService.search and searchInWorkspace pass the query, the normalized
\* workspace path and the number on to the vector database or to ChromaService)
SearchStart(caller, w, maxResults, include, exclude, dist) ==
    /\ searching.pc = "idle"
    /\ caller # "sidebar" => include = <<>> /\ exclude = <<>>
    /\ searching' = [searching EXCEPT
                       !.pc = IF searching.backend = "chroma" THEN "chroma" ELSE "embed",
                       !.caller = caller, !.ws = w, !.maxResults = maxResults,
                       !.limit = IF caller = "sidebar" THEN maxResults * 2 ELSE maxResults,
                       !.include = include, !.exclude = exclude, !.dist = dist,
                       !.view = IF caller = "sidebar" THEN "loading" ELSE "none"]
    /\ UNCHANGED <<disk, now, storeVars, status, task, watcherVars, connection, dbcall, chunker,
                   embedding, chromaProc>>

\* VectorDbService.search: embedQuery resolves or rejects
SearchEmbedQuery ==
    /\ searching.pc = "embed"
    /\ \/ searching' = [searching EXCEPT !.pc = "run"]
       \/ searching' = [searching EXCEPT !.pc = "deliver", !.outcome = "failed"]
    /\ UNCHANGED <<disk, now, storeVars, status, task, watcherVars, connection, dbcall, chunker,
                   embedding, chromaProc>>

\* VectorDbService.search: connection.run resolves with the rows, or rejects
SearchRunQuery ==
    /\ searching.pc = "run"
    /\ \/ \E rows \in searchRows(searching.ws, searching.limit, searching.dist) :
             searching' = [searching EXCEPT
                              !.pc = "deliver", !.outcome = "ok",
                              !.results = mapResults(rows, searching.dist, "vectordb")]
       \/ searching' = [searching EXCEPT !.pc = "deliver", !.outcome = "failed"]
    /\ UNCHANGED <<disk, now, storeVars, status, task, watcherVars, connection, dbcall, chunker,
                   embedding, chromaProc>>

\* ChromaService.search or searchInWorkspace: collection.query resolves or rejects
ChromaSearch ==
    /\ searching.pc = "chroma"
    /\ \/ \E docs \in chromaQuery(IF searching.ws # NoPath THEN searching.limit * 3
                                  ELSE searching.limit, searching.dist) :
             searching' = [searching EXCEPT
                              !.pc = "deliver", !.outcome = "ok",
                              !.results =
                                  mapResults(IF searching.ws # NoPath
                                               THEN chromaInWorkspace(docs, searching.ws,
                                                                      searching.limit)
                                               ELSE docs,
                                             searching.dist, "chroma")]
       \/ searching' = [searching EXCEPT !.pc = "deliver", !.outcome = "failed"]
    /\ UNCHANGED <<disk, now, storeVars, status, task, watcherVars, connection, dbcall, chunker,
                   embedding, chromaProc>>

\* the caller gets the results or the error
SearchDeliver ==
    /\ searching.pc = "deliver"
    /\ searching' = deliver(searching)
    /\ UNCHANGED <<disk, now, storeVars, status, task, watcherVars, connection, dbcall, chunker,
                   embedding, chromaProc>>

-----------------------------------------------------------------------------
(* EmbeddingService: lazy loading of the model, and the commands that need it  *)

Callers == {"k1", "k2", "k3"}

\* what a caller is: a command or the tool (which look at getState first), or
\* a caller of initialize(), which is ensureInitialized
CallerKinds == {"search", "buildIndex", "tool", "initialize"}

CallerIdle == [kind |-> "none", pc |-> "idle", embedAt |-> "none"]

\* the service after construction
EmbeddingIdle ==
    [state |-> "not-loaded", initPromise |-> "null", extractor |-> FALSE,
     loadStarts |-> {}, caller |-> [c \in Callers |-> CallerIdle]]

\* faulty variant: a call made while a load is pending starts another load
ensureInitializedAlwaysLoads(e, c) ==
    IF e.state = "ready" THEN [e EXCEPT !.caller[c].pc = "proceed"]
    ELSE IF e.state = "error" THEN [e EXCEPT !.caller[c].pc = "threw"]
    ELSE [e EXCEPT !.state = "loading", !.initPromise = "pending",
                   !.loadStarts = @ \cup {c}, !.caller[c].pc = "awaitLoad"]

\* EmbeddingService.ensureInitialized up to its await, called by c; loadStarts
\* collects the callers whose call started loadModel
ensureInitialized(e, c) ==
    IF e.state = "ready" THEN [e EXCEPT !.caller[c].pc = "proceed"]
    ELSE IF e.state = "error" THEN [e EXCEPT !.caller[c].pc = "threw"]
    ELSE IF e.initPromise # "null"
      THEN [e EXCEPT !.caller[c].pc = CASE e.initPromise = "pending" -> "awaitPromise"
                                        [] e.initPromise = "fulfilled" -> "proceed"
                                        [] OTHER -> "threw"]
    ELSE [e EXCEPT !.state = "loading", !.initPromise = "pending",
                   !.loadStarts = @ \cup {c}, !.caller[c].pc = "awaitLoad"]

\* the head of the search command, the build command and the tool: the model is
\* waited for when getState() is 'not-loaded'
ensureModelLoaded(e, c) ==
    IF e.state = "not-loaded" THEN ensureInitialized(e, c)
    ELSE [e EXCEPT !.caller[c].pc = "proceed"]

\* a command or the tool is invoked, or initialize() is called
CommandInvoked(c, kind) ==
    /\ embedding.caller[c].pc = "idle"
    /\ embedding' = IF kind = "initialize"
                      THEN ensureInitialized([embedding EXCEPT !.caller[c].kind = kind], c)
                      ELSE ensureModelLoaded([embedding EXCEPT !.caller[c].kind = kind], c)
    /\ UNCHANGED <<disk, now, storeVars, status, task, watcherVars, connection, dbcall, chunker,
                   searching, chromaProc>>

\* loadModel settles: the extractor is set when it resolved, the call that
\* started it sets the state, and every call waiting for the promise resumes
LoadModelSettles(ok) ==
    /\ embedding.initPromise = "pending"
    /\ embedding' =
          [embedding EXCEPT
              !.initPromise = IF ok THEN "fulfilled" ELSE "rejected",
              !.extractor = ok,
              !.state = IF ok THEN "ready" ELSE "error",
              !.caller = [c \in Callers |->
                            IF embedding.caller[c].pc \in {"awaitLoad", "awaitPromise"}
                              THEN [embedding.caller[c] EXCEPT
                                       !.pc = IF ok THEN "proceed" ELSE "threw"]
                              ELSE embedding.caller[c]]]
    /\ UNCHANGED <<disk, now, storeVars, status, task, watcherVars, connection, dbcall, chunker,
                   searching, chromaProc>>

\* the caller goes on to its search or its indexing and asks for an embedding:
\* embedBatch throws when there is no extractor; embedAt keeps the state of
\* the service at the request
CallerEmbeds(c) ==
    /\ embedding.caller[c].pc = "proceed"
    /\ embedding' = [embedding EXCEPT
                        !.caller[c].embedAt = embedding.state,
                        !.caller[c].pc = IF embedding.extractor THEN "embedded"
                                         ELSE "embedThrew"]
    /\ UNCHANGED <<disk, now, storeVars, status, task, watcherVars, connection, dbcall, chunker,
                   searching, chromaProc>>

\* the caller's handler has ended, with a result or an error
CallerReturns(c) ==
    /\ embedding.caller[c].pc \in {"embedded", "embedThrew", "threw"}
    /\ embedding' = [embedding EXCEPT !.caller[c] = CallerIdle]
    /\ UNCHANGED <<disk, now, storeVars, status, task, watcherVars, connection, dbcall, chunker,
                   searching, chromaProc>>

-----------------------------------------------------------------------------
(* ChromaProcessManager: start, stop, the exit handler and crash recovery      *)

\* the server processes that may be spawned in one behaviour
MaxSpawns == 3

maxRestartAttempts == 3

\* the manager after construction; process is the pid held in this.process (0
\* for null), alive the server processes that run, stopListener the processes
\* that carry the once('exit') listener of a stop(), crashSleeps the handleCrash
\* calls that sleep, starting the start() calls that wait for the server;
\* stopCompleted: a stop() has resolved and start() was not called since;
\* spawnedSinceStop: a process was spawned while stopCompleted
ChromaIdle ==
    [status |-> "stopped", process |-> 0, healthCheckInterval |-> FALSE, restartAttempts |-> 0,
     spawned |-> 0, alive |-> {}, stopListener |-> {}, stopTimer |-> FALSE,
     crashSleeps |-> 0, starting |-> 0, stopCompleted |-> FALSE, spawnedSinceStop |-> FALSE]

\* handleCrash up to its sleep
handleCrash(cp) ==
    IF cp.restartAttempts >= maxRestartAttempts THEN cp
    ELSE [cp EXCEPT !.restartAttempts = @ + 1, !.crashSleeps = @ + 1]

\* start() up to waitForReady; execMissing: the executable is not found
startBody(cp, execMissing) ==
    IF cp.status = "running" THEN cp
    ELSE IF execMissing THEN [cp EXCEPT !.status = "error"]
    ELSE [cp EXCEPT !.status = "starting", !.process = cp.spawned + 1,
                    !.spawned = @ + 1, !.alive = @ \cup {cp.spawned + 1},
                    !.starting = @ + 1, !.spawnedSinceStop = @ \/ cp.stopCompleted]

\* start() is called by the extension
ChromaStart(execMissing) ==
    /\ chromaProc.spawned < MaxSpawns
    /\ chromaProc' = startBody([chromaProc EXCEPT !.stopCompleted = FALSE,
                                                  !.spawnedSinceStop = FALSE], execMissing)
    /\ UNCHANGED <<disk, now, storeVars, status, task, watcherVars, connection, dbcall, chunker,
                   searching, embedding>>

\* start() after waitForReady: the server answered, or the timeout passed
ChromaStartReady(ok) ==
    /\ chromaProc.starting > 0
    /\ ok => chromaProc.alive # {}
    /\ chromaProc' = IF ok
                       THEN [chromaProc EXCEPT !.starting = @ - 1, !.status = "running",
                                               !.restartAttempts = 0,
                                               !.healthCheckInterval = TRUE]
                       ELSE [chromaProc EXCEPT !.starting = @ - 1, !.status = "error"]
    /\ UNCHANGED <<disk, now, storeVars, status, task, watcherVars, connection, dbcall, chunker,
                   searching, embedding>>

\* the 'exit' handler that start() registered on every process
exitHandler(cp) ==
    IF cp.status = "running"
      THEN handleCrash([cp EXCEPT !.process = 0, !.status = "error"])
      ELSE [cp EXCEPT !.process = 0, !.status = "stopped"]

\* the once('exit') listener of stop(); it resolves the stop unless the timeout
\* has resolved it before
stopExitListener(cp) ==
    [cp EXCEPT !.stopTimer = FALSE, !.process = 0, !.status = "stopped",
               !.stopCompleted = @ \/ cp.stopTimer,
               !.spawnedSinceStop = IF cp.stopTimer THEN FALSE ELSE @]

\* a server process exits, killed or by itself: its listeners run in the order
\* in which they were registered
ChromaProcessExit(pid) ==
    /\ pid \in chromaProc.alive
    /\ chromaProc' =
          LET gone == [chromaProc EXCEPT !.alive = @ \ {pid}, !.stopListener = @ \ {pid}]
          IN IF pid \in chromaProc.stopListener THEN stopExitListener(exitHandler(gone))
             ELSE exitHandler(gone)
    /\ UNCHANGED <<disk, now, storeVars, status, task, watcherVars, connection, dbcall, chunker,
                   searching, embedding>>

\* the 'error' handler that start() registered on every process
ChromaProcessError(pid) ==
    /\ pid \in chromaProc.alive
    /\ chromaProc.status # "error"
    /\ chromaProc' = [chromaProc EXCEPT !.status = "error"]
    /\ UNCHANGED <<disk, now, storeVars, status, task, watcherVars, connection, dbcall, chunker,
                   searching, embedding>>

\* stop(): with no process it is done at once, else it waits for the exit or
\* for its timeout
ChromaStop ==
    /\ chromaProc.stopListener = {} /\ ~ chromaProc.stopTimer
    /\ ~ chromaProc.stopCompleted
    /\ chromaProc' =
          IF chromaProc.process = 0
            THEN [chromaProc EXCEPT !.healthCheckInterval = FALSE, !.status = "stopped",
                                    !.stopCompleted = TRUE, !.spawnedSinceStop = FALSE]
            ELSE [chromaProc EXCEPT !.healthCheckInterval = FALSE,
                                    !.stopListener = {chromaProc.process},
                                    !.stopTimer = TRUE]
    /\ UNCHANGED <<disk, now, storeVars, status, task, watcherVars, connection, dbcall, chunker,
                   searching, embedding>>

\* stop(): the process has not exited within the timeout
ChromaStopTimeout ==
    /\ chromaProc.stopTimer
    /\ chromaProc' = [chromaProc EXCEPT !.stopTimer = FALSE, !.status = "stopped",
                                        !.stopCompleted = TRUE, !.spawnedSinceStop = FALSE]
    /\ UNCHANGED <<disk, now, storeVars, status, task, watcherVars, connection, dbcall, chunker,
                   searching, embedding>>

\* the health check interval fires and the server does not answer
ChromaHealthCheckFails ==
    /\ chromaProc.healthCheckInterval
    /\ chromaProc.status = "running"
    /\ chromaProc' = handleCrash([chromaProc EXCEPT !.status = "error"])
    /\ UNCHANGED <<disk, now, storeVars, status, task, watcherVars, connection, dbcall, chunker,
                   searching, embedding>>

\* handleCrash after its sleep: it calls start()
ChromaCrashRestart(execMissing) ==
    /\ chromaProc.crashSleeps > 0
    /\ chromaProc.spawned < MaxSpawns
    /\ chromaProc' = startBody([chromaProc EXCEPT !.crashSleeps = @ - 1], execMissing)
    /\ UNCHANGED <<disk, now, storeVars, status, task, watcherVars, connection, dbcall, chunker,
                   searching, embedding>>

-----------------------------------------------------------------------------
(* Specifications of the indexing service *)

WatcherIdle ==
    /\ watching = TRUE
    /\ pendingFiles = [f \in WatchedPaths |-> 0]
    /\ timers = {}
    /\ wclock = 0
    /\ calls = <<>>
    /\ wlog = [events |-> 0,
               changes |-> [f \in WatchedPaths |-> 0],
               lastAt |-> [f \in WatchedPaths |-> 0]]

\* the service after construction, nothing indexed and nothing running
ServiceIdle ==
    /\ disk = [f \in AllFiles |-> IF f \in Files THEN "c1" ELSE "missing"]
    /\ now = 0
    /\ workspaces = {}
    /\ folders = {}
    /\ files = {}
    /\ chunks = {}
    /\ status = IdleStatus
    /\ task = [t \in Tasks |-> IdleTask]
    /\ WatcherIdle

\* the extension after activation: the database is initialized
Init ==
    /\ ServiceIdle
    /\ connection = TRUE
    /\ dbcall = NoCall
    /\ chunker = ChunkerIdle
    /\ searching = SearchIdle
    /\ embedding = EmbeddingIdle
    /\ chromaProc = ChromaIdle

IndexFileSteps(t) ==
    \/ IndexFileRead(t)
    \/ IndexFileLookup(t)
    \/ IndexFileDelete(t)
    \/ IndexFileWorkspace(t)
    \/ IndexFileAddChunk(t)
    \/ IndexFileUpsert(t)

DeleteSteps(t) ==
    \/ DeleteFileLookup(t)
    \/ DeleteFileChunksStep(t)
    \/ DeleteFileRowStep(t)
    \/ DeleteWorkspaceLookup(t)
    \/ DeleteWorkspaceChunksStep(t)
    \/ DeleteWorkspaceFilesStep(t)
    \/ DeleteWorkspaceFoldersStep(t)

Environment == \E f \in Files, c \in Contents \cup {"missing"} : EditFile(f, c)

NoCallInFlight == \A t \in Tasks : task[t].pc = "idle"

RunActive(t) == task[t].op \in RunOps /\ task[t].pc \notin {"idle", "done"}

\* One caller that awaits every call before it makes the next: direct indexFile
\* calls, the two deletes and getIndexEntries, over both workspaces.
Next ==
    \/ \E w \in Workspaces, f \in Files : NoCallInFlight /\ StartIndexFile("t1", w, f)
    \/ \E f \in Files : NoCallInFlight /\ StartDeleteFileIndex("t1", f)
    \/ \E w \in Workspaces : NoCallInFlight /\ StartDeleteWorkspaceIndex("t1", w)
    \/ \E w \in Workspaces \cup {NoPath} : NoCallInFlight /\ StartGetIndexEntries("t1", w)
    \/ IndexFileSteps("t1")
    \/ DeleteSteps("t1")
    \/ GetEntriesFetch("t1")
    \/ GetEntriesEntry("t1")
    \/ Return("t1")
    \/ Environment

Spec == Init /\ [][Next]_vars

\* Runs requested by two callers that do not wait for each other, over the
\* workspace WsP: t1 asks for indexWorkspace (the build-index and
\* reindex-workspace commands), t2 for indexFiles (the index-files command), and
\* either may ask for either while a run is active.
NextRun ==
    \/ StartIndexWorkspace("t1", WsP)
    \/ \E list \in FileLists : StartIndexFiles("t2", WsP, list)
    \/ \E t \in Tasks, op \in RunOps : RejectStart(t, op, WsP)
    \/ \E t \in Tasks : EnumerateFiles(t)
    \/ \E t \in Tasks : IndexFileSteps(t)
    \/ \E t \in Tasks : Return(t)
    \/ Environment

SpecRun == Init /\ [][NextRun]_vars

\* The file watcher alone: events, timers and the calls it makes.
NextWatcher ==
    \/ \E f \in WatchedPaths : HandleFileChange(f)
    \/ \E f \in WatchedPaths : HandleFileDelete(f)
    \/ \E tm \in timers : TimerFires(tm)
    \/ StopWatcher
    \/ Tick

SpecWatcher == Init /\ [][NextWatcher]_vars

\* One user who starts indexWorkspace on WsPS or reindexFolder on a folder of the
\* tree, may ask for it to stop, and edits the files of FileB's folder meanwhile.
NextCancel ==
    \/ NoCallInFlight /\ StartIndexWorkspace("t1", WsPS)
    \/ \E r \in folders : NoCallInFlight /\ StartReindexFolder("t1", r.folderId)
    \/ EnumerateFiles("t1")
    \/ ReindexFolderFetch("t1")
    \/ IndexFileSteps("t1")
    \/ RequestCancel("t1")
    \/ Return("t1")
    \/ \E f \in {FileB, FileC}, c \in Contents \cup {"missing"} : EditFile(f, c)

SpecCancel == Init /\ [][NextCancel]_vars

\* The single caller of Spec, with a database whose DELETE statements may fail.
NextDeleteFails ==
    \/ Next
    \/ DeleteWorkspaceStepThrows("t1")

SpecDeleteFails == Init /\ [][NextDeleteFails]_vars

\* A VectorDbService that has been constructed and not initialized, then used
\* directly: any public method at any time, on the workspace WsP and the file
\* FileB (two folders deep), initialize() and close().
InitStore ==
    /\ ServiceIdle
    /\ connection = FALSE
    /\ dbcall = NoCall
    /\ chunker = ChunkerIdle
    /\ searching = SearchIdle
    /\ embedding = EmbeddingIdle
    /\ chromaProc = ChromaIdle

NextStore ==
    \/ DbInitialize
    \/ DbClose
    \/ \E op \in DbOps, w \in {WsP, NoPath}, c \in Contents :
         \E k \in 1..Len(ChunkTable[c]) : DbCall(op, w, FileB, c, k)
    \/ DbUpsertThrows(WsP, FileB)

SpecStore == InitStore /\ [][NextStore]_vars

\* splitIntoTokenChunks called once, on any of the contents and configurations.
InitChunker ==
    /\ ServiceIdle
    /\ connection = TRUE
    /\ dbcall = NoCall
    /\ searching = SearchIdle
    /\ embedding = EmbeddingIdle
    /\ chromaProc = ChromaIdle
    /\ \E content \in ChunkerContents, m \in ChunkMaxTokensTried, o \in ChunkOverlapTokensTried :
         \E encoding \in BOOLEAN, tiktoken \in BOOLEAN :
             chunker = chunkerCalled(content, m, o, encoding, tiktoken)

NextChunker ==
    \/ ChunkerEntry
    \/ ChunkerStep

SpecChunker == InitChunker /\ [][NextChunker]_vars

\* the tables after indexFile has succeeded on each pair of S
IndexedPairs(S) ==
    [workspaces |-> {pr[1] : pr \in S},
     folders |-> UNION {getOrCreateFolderId(workspaceIdOf(pr[1]), pr[2], {}) : pr \in S},
     files |-> {indexedFileRow(pr[1], pr[2], "c1", 0) : pr \in S},
     chunks |-> {chunkRow(pr[1], pr[2], "c1", 1) : pr \in S}]

\* One search over an index that holds some of the SearchPairs, through the
\* SearchService over VectorDbService or over ChromaService, from the sidebar
\* (which may hold the results of an earlier search), the tool or a direct caller.
InitSearch ==
    /\ disk = [f \in AllFiles |-> IF f \in Files THEN "c1" ELSE "missing"]
    /\ now = 0
    /\ \E S \in SUBSET SearchPairs :
          /\ workspaces = IndexedPairs(S).workspaces
          /\ folders = IndexedPairs(S).folders
          /\ files = IndexedPairs(S).files
          /\ chunks = IndexedPairs(S).chunks
    /\ status = IdleStatus
    /\ task = [t \in Tasks |-> IdleTask]
    /\ WatcherIdle
    /\ connection = TRUE
    /\ dbcall = NoCall
    /\ chunker = ChunkerIdle
    /\ \E backend \in {"vectordb", "chroma"}, last \in {<<>>, <<PreviousResult>>} :
          searching = [SearchIdle EXCEPT !.backend = backend, !.lastResults = last]
    /\ embedding = EmbeddingIdle
    /\ chromaProc = ChromaIdle

NextSearch ==
    \/ \E caller \in {"service", "sidebar", "tool"}, w \in Workspaces \cup {NoPath},
          maxResults \in MaxResultsTried, include \in PatternsTried, exclude \in PatternsTried,
          dist \in [SearchCorpusIds -> Distances] :
            SearchStart(caller, w, maxResults, include, exclude, dist)
    \/ SearchEmbedQuery
    \/ SearchRunQuery
    \/ ChromaSearch
    \/ SearchDeliver

SpecSearch == InitSearch /\ [][NextSearch]_vars

\* One caller that indexes files, lets them go stale (the files change only while
\* no call is in flight) and asks for the stale files of a workspace to be
\* re-indexed.
NextReindexStale ==
    \/ \E w \in Workspaces, f \in Files : NoCallInFlight /\ StartIndexFile("t1", w, f)
    \/ \E w \in Workspaces : NoCallInFlight /\ StartReindexStaleFiles("t1", w)
    \/ GetEntriesFetch("t1")
    \/ GetEntriesEntry("t1")
    \/ ReindexStaleIndexFiles("t1")
    \/ IndexFileSteps("t1")
    \/ Return("t1")
    \/ NoCallInFlight /\ Environment

SpecReindexStale == Init /\ [][NextReindexStale]_vars

\* Two callers that do not wait for each other, on the one file FileA of WsP:
\* indexFile is not behind the run guard, so the timer callback of the file
\* watcher and the reindex commands call it while another call is in flight. A
\* caller takes the result of its call before the other starts a new one, so two
\* finished calls have overlapped. The delete event of the file is handled (t2)
\* while the indexFile call of t1 is in flight, and from then on the file stays
\* as it is and no new indexFile call starts.
OtherTask(t) == IF t = "t1" THEN "t2" ELSE "t1"

DeleteHandled == task["t2"].op = "deleteFileIndex"

NextOverlap ==
    \/ \E t \in Tasks :
          /\ task[OtherTask(t)].pc # "done" /\ ~DeleteHandled
          /\ StartIndexFile(t, WsP, FileA)
    \/ /\ task["t1"].op = "indexFile" /\ task["t1"].pc \notin {"idle", "done"}
       /\ disk[FileA] = "missing"
       /\ StartDeleteFileIndex("t2", FileA)
    \/ \E t \in Tasks : IndexFileSteps(t)
    \/ DeleteFileLookup("t2")
    \/ DeleteFileChunksStep("t2")
    \/ DeleteFileRowStep("t2")
    \/ \E t \in Tasks : Return(t)
    \/ \E c \in Contents \cup {"missing"} : ~DeleteHandled /\ EditFile(FileA, c)

SpecOverlap == Init /\ [][NextOverlap]_vars

\* The sidebar searches one workspace that holds up to three indexed files.
FilteredPairs == {<<WsP, FileA>>, <<WsP, FileB>>, <<WsP, FileC>>}

InitFilteredSearch ==
    /\ disk = [f \in AllFiles |-> "c1"]
    /\ now = 0
    /\ \E S \in SUBSET FilteredPairs :
          /\ workspaces = IndexedPairs(S).workspaces
          /\ folders = IndexedPairs(S).folders
          /\ files = IndexedPairs(S).files
          /\ chunks = IndexedPairs(S).chunks
    /\ status = IdleStatus
    /\ task = [t \in Tasks |-> IdleTask]
    /\ WatcherIdle
    /\ connection = TRUE
    /\ dbcall = NoCall
    /\ chunker = ChunkerIdle
    /\ \E last \in {<<>>, <<PreviousResult>>} :
          searching = [SearchIdle EXCEPT !.lastResults = last]
    /\ embedding = EmbeddingIdle
    /\ chromaProc = ChromaIdle

NextFilteredSearch ==
    \/ \E maxResults \in MaxResultsTried, include \in PatternsTried, exclude \in PatternsTried,
          dist \in [{r.chunkId : r \in IndexedPairs(FilteredPairs).chunks} -> Distances] :
            SearchStart("sidebar", WsP, maxResults, include, exclude, dist)
    \/ SearchEmbedQuery
    \/ SearchRunQuery
    \/ SearchDeliver

SpecFilteredSearch == InitFilteredSearch /\ [][NextFilteredSearch]_vars

\* The embedding service after activation, and callers that need the model.
NextEmbedding ==
    \/ \E c \in Callers, kind \in CallerKinds : CommandInvoked(c, kind)
    \/ \E ok \in BOOLEAN : LoadModelSettles(ok)
    \/ \E c \in Callers : CallerEmbeds(c)
    \/ \E c \in Callers : CallerReturns(c)

SpecEmbedding == Init /\ [][NextEmbedding]_vars

\* The process manager of the bundled Chroma server.
NextChroma ==
    \/ \E execMissing \in BOOLEAN : ChromaStart(execMissing)
    \/ \E ok \in BOOLEAN : ChromaStartReady(ok)
    \/ \E pid \in 1..MaxSpawns : ChromaProcessExit(pid)
    \/ \E pid \in 1..MaxSpawns : ChromaProcessError(pid)
    \/ ChromaStop
    \/ ChromaStopTimeout
    \/ ChromaHealthCheckFails
    \/ \E execMissing \in BOOLEAN : ChromaCrashRestart(execMissing)

SpecChroma == Init /\ [][NextChroma]_vars

-----------------------------------------------------------------------------
(* Claims *)

FileChunks(store, fileId) == {c \in store.chunks : c.fileId = fileId}
FileRows(store, fileId) == {r \in store.files : r.fileId = fileId}
TaskFileId(t) == generateFileId(task[t].ws, task[t].file)
Finished(t, op) == task[t].pc = "done" /\ task[t].op = op

\* C1: at most one run (indexWorkspace or indexFiles) is active at a time, and a
\* call to either made while a run is active is rejected at once: it fails with
\* 'Indexing already in progress', writes nothing, leaves the status and the
\* active run as they are, and is not kept for later.
C1_OneRunAtATime ==
    /\ [](Cardinality({t \in Tasks : RunActive(t)}) <= 1)
    /\ [][\A t \in Tasks :
            (task[t].pc = "idle" /\ task'[t].pc # "idle" /\ \E u \in Tasks : RunActive(u))
            => /\ task'[t].pc = "done" /\ task'[t].outcome = "rejected"
               /\ storeVars' = storeVars
               /\ status' = status
               /\ \A u \in Tasks \ {t} : task'[u] = task[u]]_vars

\* a start has been rejected while the other caller's run, one file done, goes on
C1_Witness ==
    \E t, u \in Tasks :
        /\ task[t].outcome = "rejected"
        /\ RunActive(u) /\ task[u].i >= 1

\* C2: when indexFile finds the row's hash equal to the hash of the content it
\* read, that step ends the call successfully and no table changes: no chunk is
\* deleted or written and the IndexedFile row keeps its lastIndexedAt.
C2_SkipChangesNothing ==
    [][\A t \in Tasks :
          (/\ InIndexFile(t) /\ task[t].pc = "if_lookup" /\ task'[t] # task[t]
           /\ \E r \in files : r.fileId = TaskFileId(t)
                               /\ r.md5Hash = calculateMD5(task[t].content))
          => /\ storeVars' = storeVars
             /\ task'[t].pc = "done" /\ task'[t].outcome = "ok"]_vars

\* a call has skipped a file that has a row and chunks
C2_Witness ==
    \E t \in Tasks :
        /\ Finished(t, "indexFile") /\ task[t].last = "skipped"
        /\ FileChunks(StoreNow, TaskFileId(t)) # {}

\* C3: after indexFile has succeeded on a file that had a row with another hash,
\* the chunks stored for the file are exactly the chunks of the content it read,
\* and the row holds that content's hash and a later lastIndexedAt.
C3_ReindexRegenerates ==
    \A t \in Tasks :
        (Finished(t, "indexFile") /\ task[t].last = "indexed" /\ task[t].rows # {})
        => /\ FileChunks(StoreNow, TaskFileId(t))
                = {chunkRow(task[t].ws, task[t].file, task[t].content, k) :
                       k \in 1..Len(ChunkTable[task[t].content])}
           /\ \E r \in FileRows(StoreNow, TaskFileId(t)) :
                 /\ r.md5Hash = calculateMD5(task[t].content)
                 /\ \A o \in task[t].rows :
                       o.md5Hash # r.md5Hash /\ r.lastIndexedAt > o.lastIndexedAt

\* a reindex has removed chunks the file had before
C3_Witness ==
    \E t \in Tasks :
        /\ Finished(t, "indexFile") /\ task[t].last = "indexed" /\ task[t].rows # {}
        /\ \E c \in FileChunks(task[t].before, TaskFileId(t)) : c \notin chunks

\* C4: once a run has caught a file's error it goes on with the next file of its
\* list, and when it ends it has been through the whole list and has succeeded.
C4_FileErrorsDoNotStopRun ==
    \A t \in Tasks :
        (task[t].op \in RunOps /\ task[t].errs > 0)
        => IF task[t].pc = "done"
             THEN task[t].outcome = "ok" /\ task[t].i = Len(task[t].list)
             ELSE task[t].i < Len(task[t].list) /\ task[t].file = task[t].list[task[t].i + 1]

\* a run of two files has ended: the first failed, the second was indexed
C4_Witness ==
    \E t \in Tasks :
        /\ task[t].pc = "done" /\ task[t].op \in RunOps
        /\ Len(task[t].list) = 2 /\ task[t].errs = 1 /\ task[t].last = "indexed"

\* C5: a failed indexFile leaves the file's chunks and its row as they were when
\* the call began.
C5_FailureKeepsPreviousState ==
    \A t \in Tasks :
        (Finished(t, "indexFile") /\ task[t].outcome = "failed")
        => /\ FileChunks(StoreNow, TaskFileId(t)) = FileChunks(task[t].before, TaskFileId(t))
           /\ FileRows(StoreNow, TaskFileId(t)) = FileRows(task[t].before, TaskFileId(t))

\* C6: when no call is in flight, every stored chunk belongs to a file that has
\* an IndexedFile row.
C6_NoOrphanChunks ==
    (\A t \in Tasks : task[t].pc \in {"idle", "done"})
    => \A c \in chunks : \E r \in files : r.fileId = c.fileId

\* C7: isIndexing is true exactly while a run is active, and whenever it is false
\* currentFile is cleared, however the run ended.
C7_StatusFollowsRun ==
    /\ status.isIndexing <=> \E t \in Tasks : RunActive(t)
    /\ ~status.isIndexing => status.currentFile = NoPath

\* a run has thrown (file enumeration failed) and the status is idle again
C7_Witness ==
    \E t \in Tasks :
        /\ task[t].pc = "done" /\ task[t].op \in RunOps /\ task[t].outcome = "failed"
        /\ ~status.isIndexing

\* C8: when deleteWorkspaceIndex(W) has returned, it has not failed, the chunks,
\* file rows and folder rows of W are gone, those of every other workspace and
\* the workspace rows are as they were, and nothing has changed when W had no row.
C8_DeleteWorkspaceScoped ==
    \A t \in Tasks :
        Finished(t, "deleteWorkspaceIndex")
        => /\ task[t].outcome = "ok"
           /\ chunks = {c \in task[t].before.chunks : c.workspacePath # task[t].ws}
           /\ files = {r \in task[t].before.files : r.workspaceId # workspaceIdOf(task[t].ws)}
           /\ folders = {r \in task[t].before.folders : r.workspaceId # workspaceIdOf(task[t].ws)}
           /\ workspaces = task[t].before.workspaces
           /\ task[t].ws \notin task[t].before.workspaces => StoreNow = task[t].before

\* a workspace's chunks, file rows and folder rows were deleted and another's are still there
C8_Witness ==
    \E t \in Tasks :
        /\ Finished(t, "deleteWorkspaceIndex")
        /\ \E c \in task[t].before.chunks : c.workspacePath = task[t].ws
        /\ \E r \in task[t].before.folders : r.workspaceId = workspaceIdOf(task[t].ws)
        /\ chunks # {} /\ files # {} /\ folders # {}

\* C9: each entry getIndexEntries adds is stale exactly when, at that moment, the
\* file cannot be read or the hash of its content on disk differs from the hash
\* in its row.
C9_StaleFromDisk ==
    [][\A t \in Tasks : \A e \in task'[t].entries \ task[t].entries :
          e.isStale <=> \/ disk[e.filePath] = "missing"
                        \/ \E r \in files : /\ r.fileId = e.fileId
                                            /\ r.md5Hash # calculateMD5(disk[e.filePath])]_vars

\* one call has reported a deleted file as stale and an unchanged file as fresh
C9_Witness ==
    \E t \in Tasks :
        /\ Finished(t, "getIndexEntries")
        /\ \E e1, e2 \in task[t].entries :
              /\ e1.isStale /\ disk[e1.filePath] = "missing"
              /\ ~e2.isStale

\* C10: a file has one armed timer while change events for it wait and none
\* otherwise, and every indexFile call the watcher makes answers at least one
\* change event and comes debounceMs (to within one tick) after the latest of them.
C10_ChangesCoalesced ==
    /\ \A f \in WatchedPaths :
          Cardinality({tm \in timers : tm.file = f}) = IF wlog.changes[f] > 0 THEN 1 ELSE 0
    /\ \A n \in 1..Len(calls) :
          calls[n].op = "indexFile"
          => /\ calls[n].coalesced >= 1
             /\ calls[n].at >= calls[n].lastAt + debounceMs
             /\ calls[n].at < calls[n].lastAt + debounceMs + TickMs

\* one indexFile call has answered two change events that came at different times
C10_Witness ==
    \E n \in 1..Len(calls) :
        /\ calls[n].op = "indexFile" /\ calls[n].coalesced >= 2
        /\ calls[n].lastAt > 0

\* C11: the step that handles a delete event for a path leaves no timer armed
\* for that path and calls deleteFileIndex for it, and every indexFile call made
\* for a path after a delete of it comes from a change event later than the delete.
C11_DeleteCancelsPending ==
    /\ [][\A f \in WatchedPaths :
            (wlog'.events = wlog.events + 1 /\ Len(calls') = Len(calls) + 1
             /\ calls'[Len(calls')].op = "deleteFileIndex" /\ calls'[Len(calls')].file = f)
            => /\ \A tm \in timers' : tm.file # f
               /\ pendingFiles'[f] = 0
               /\ calls'[Len(calls')].at = wclock]_vars
    /\ [](\A m, n \in 1..Len(calls) :
            (/\ m < n /\ calls[m].file = calls[n].file
             /\ calls[m].op = "deleteFileIndex" /\ calls[n].op = "indexFile")
            => calls[n].ev > calls[m].ev)

\* a delete has cleared a pending timer, the time at which that timer was due
\* has passed, and no indexFile call has been made
C11_Witness ==
    \E m \in 1..Len(calls) :
        /\ calls[m].op = "deleteFileIndex" /\ calls[m].cancelled >= 1
        /\ wclock >= calls[m].lastAt + debounceMs + TickMs
        /\ \A n \in 1..Len(calls) : calls[n].op # "indexFile"

\* C12: while a run is going through its files the status carries the number of
\* files processed so far, the run's totalFiles and the relative path of the file
\* in progress; each file that ends (indexed, skipped or failed) raises
\* processedFiles by one, processedFiles never decreases within a run, and it
\* equals totalFiles when the run ends.
C12_ProgressAfterEveryFile ==
    /\ [](\A t \in Tasks :
            (RunActive(t) /\ task[t].pc # "enum")
            => /\ status.processedFiles = task[t].i
               /\ status.totalFiles = Len(task[t].list)
               /\ task[t].i < Len(task[t].list)
               /\ status.currentFile = getRelativePath(task[t].ws, task[t].list[task[t].i + 1]))
    /\ [][\A t \in Tasks :
            /\ (RunActive(t) /\ task'[t].i # task[t].i)
               => /\ task'[t].i = task[t].i + 1
                  /\ task'[t].last \in {"indexed", "skipped", "threw"}
                  /\ status'.processedFiles = task'[t].i
                  /\ status'.totalFiles = status.totalFiles
            /\ (RunActive(t) /\ RunActive(t)')
               => status'.processedFiles >= status.processedFiles
            /\ (RunActive(t) /\ ~RunActive(t)')
               => status'.processedFiles = status'.totalFiles]_vars

\* a run of two files has ended with one file failed and one indexed, and the
\* status shows two of two
C12_Witness ==
    \E t \in Tasks :
        /\ task[t].pc = "done" /\ task[t].op \in RunOps /\ task[t].outcome = "ok"
        /\ Len(task[t].list) = 2 /\ task[t].errs = 1
        /\ status.processedFiles = 2 /\ status.totalFiles = 2

\* what cancellation at file boundaries means for an operation op: once the stop
\* has been asked for, the file in progress (if any) is the only one the
\* operation still works on, it is carried through, and no other file is started
StopsAtFileBoundary(op) ==
    \A t \in Tasks :
        (task[t].op = op /\ task[t].cancel)
        => LET mid == IF task[t].cancelMid THEN 1 ELSE 0
           IN /\ task[t].pc \notin {"done", "enum"} => task[t].cancelMid /\ task[t].i = task[t].cancelAt
              /\ (task[t].pc = "done" /\ task[t].outcome = "ok")
                 => task[t].i = task[t].cancelAt + mid
              /\ task[t].i <= task[t].cancelAt + mid

C14_UninitializedFailsFast ==
    (dbcall.op # "none" /\ ~dbcall.open) => dbcall.result = "Database not initialized"

ChunkerDone == chunker.pc = "done"

\* C15: the chunker makes forward progress: every iteration of the loop leaves
\* startLine strictly greater than it was, every chunk starts on a later line
\* than the chunk before it, and so there are never more chunks than lines and
\* the loop ends.
C15_ForwardProgress ==
    /\ [](/\ \A i \in 1..(Len(chunker.chunks) - 1) :
               chunker.chunks[i + 1].lineStart > chunker.chunks[i].lineStart
          /\ Len(chunker.chunks) <= Len(chunker.lines)
          /\ chunker.pc = "loop" =>
               /\ chunker.startLine < Len(chunker.lines)
               /\ Len(chunker.chunks) <= chunker.startLine)
    /\ [][(chunker.pc = "loop" /\ chunker'.pc = "loop") =>
            chunker'.startLine > chunker.startLine]_vars

\* a run with an overlap in which a chunk of a single line was followed by another chunk
C15_Witness ==
    /\ ChunkerDone
    /\ chunker.overlapTokens > 0
    /\ Len(chunker.chunks) >= 3
    /\ \E i \in 1..(Len(chunker.chunks) - 1) :
         chunker.chunks[i].lineStart = chunker.chunks[i].lineEnd

\* C16: with overlapTokens > 0, the token offset at which chunk i+1 starts is at
\* least the end token of chunk i minus overlapTokens, for every pair of adjacent
\* chunks.
C16_OverlapBounded ==
    chunker.overlapTokens > 0 =>
        \A i \in 1..(Len(chunker.chunks) - 1) :
            chunker.chunks[i + 1].tokenStart >= chunker.chunks[i].tokenEnd - chunker.overlapTokens

\* C17: every chunk spans at most maxTokens tokens, unless it is a chunk of a
\* single line that by itself exceeds maxTokens.
C17_ChunkWithinBudget ==
    \A i \in 1..Len(chunker.chunks) :
        LET chunk == chunker.chunks[i]
        IN \/ chunk.tokenEnd - chunk.tokenStart <= chunker.maxTokens
           \/ /\ chunk.lineStart = chunk.lineEnd
              /\ chunker.lines[chunk.lineStart] > chunker.maxTokens

\* a finished run with a chunk of several lines that could not take the next line,
\* and a chunk of one line over the budget
C17_Witness ==
    /\ ChunkerDone
    /\ \E i \in 1..Len(chunker.chunks) :
         LET chunk == chunker.chunks[i]
         IN /\ chunk.lineEnd > chunk.lineStart
            /\ chunk.lineEnd < Len(chunker.lines)
            /\ chunk.tokenEnd - chunk.tokenStart + chunker.lines[chunk.lineEnd + 1]
                 > chunker.maxTokens
    /\ \E i \in 1..Len(chunker.chunks) :
         chunker.chunks[i].tokenEnd - chunker.chunks[i].tokenStart > chunker.maxTokens

\* C18: for a content of one line whose token count exceeds the chunk budget,
\* every chunk returned spans at most the budget.
C18_LongLineWithinBudget ==
    (ChunkerDone /\ Len(chunker.lines) = 1 /\ chunker.lines[1] > chunker.maxTokens) =>
        \A i \in 1..Len(chunker.chunks) :
            chunker.chunks[i].tokenEnd - chunker.chunks[i].tokenStart <= chunker.maxTokens

\* the budget the configuration asks for, brought into [256, 2048]
ClampedMaxTokens == Min(Max(chunker.chunkMaxTokens, MinChunkTokens), MaxChunkTokens)

\* C19: when the total token count of the content is at most maxTokens (the
\* configured budget after clamping), the chunker returns exactly one chunk, from
\* line 1 to the last line of the content.
C19_SmallContentOneChunk ==
    (ChunkerDone /\ SumTo(contentLines(chunker.content), Len(contentLines(chunker.content)))
                      <= ClampedMaxTokens) =>
        /\ Len(chunker.chunks) = 1
        /\ chunker.chunks[1].lineStart = 1
        /\ chunker.chunks[1].lineEnd = Len(contentLines(chunker.content))

\* a content of several lines that fits the budget only because the budget is
\* raised to the lower clamp
C19_Witness ==
    /\ ChunkerDone
    /\ Len(chunker.lines) >= 3
    /\ SumTo(chunker.lines, Len(chunker.lines)) > chunker.chunkMaxTokens
    /\ SumTo(chunker.lines, Len(chunker.lines)) <= ClampedMaxTokens
    /\ Len(chunker.chunks) = 1

\* C20: chunking the empty content yields an empty sequence of chunks.
C20_EmptyContentNoChunks ==
    (ChunkerDone /\ chunker.content = <<>>) => chunker.chunks = <<>>

\* C21: when the tokenizer is unavailable the chunker does not fail: the call
\* returns the whole document as one chunk, from line 1 to the last line.
C21_TokenizerFallback ==
    (~chunker.encoding /\ ~chunker.tiktoken /\ chunker.pc \notin {"idle", "entry"}) =>
        /\ chunker.pc = "done"
        /\ Len(chunker.chunks) = 1
        /\ chunker.chunks[1].lineStart = 1
        /\ chunker.chunks[1].lineEnd = Len(contentLines(chunker.content))

\* C22: for every indexed file, when no call is in flight, each stored chunk has
\* lineEnd >= lineStart >= 1 and the chunks' ordinal indices are exactly
\* 0, 1, ..., n-1, in the order of increasing start line.
C22_ChunkOrdinals ==
    (\A t \in Tasks : task[t].pc \in {"idle", "done"})
    => \A r \in files :
         LET cs == FileChunks(StoreNow, r.fileId)
         IN /\ \A c \in cs : c.lineEnd >= c.lineStart /\ c.lineStart >= 1
            /\ \A k \in 0..(Cardinality(cs) - 1) :
                 Cardinality({c \in cs : c.chunkIndex = k}) = 1
            /\ \A c, d \in cs : c.chunkIndex < d.chunkIndex => c.lineStart < d.lineStart

RowsOfPath(store, f) == {r \in store.files : r.filePath = f}

\* C23: deleteFileIndex(path): when no IndexedFile row exists for the path the
\* call changes nothing and raises no error; otherwise the chunks are deleted
\* while the row is still there, the row after them, and when the call has
\* returned no row for the path and no chunk of such a row remains.
C23_DeleteFileIndex ==
    \A t \in Tasks :
        /\ (task[t].op = "deleteFileIndex" /\ task[t].pc = "df_row")
           => \A r \in task[t].rows : r \in files /\ FileChunks(StoreNow, r.fileId) = {}
        /\ Finished(t, "deleteFileIndex")
           => /\ task[t].outcome = "ok"
              /\ IF RowsOfPath(task[t].before, task[t].file) = {}
                   THEN StoreNow = task[t].before
                   ELSE /\ RowsOfPath(StoreNow, task[t].file) = {}
                        /\ \A r \in RowsOfPath(task[t].before, task[t].file) :
                              FileChunks(StoreNow, r.fileId) = {}

\* C24: deleteWorkspaceIndex deletes the chunks, then the file rows, then the
\* folder rows: the file rows are there until the chunks are gone, the folder
\* rows until the file rows are gone, and at no point of the call, a failure
\* part-way included, is there a chunk of the workspace whose file row the call
\* has removed.
C24_DeleteWorkspaceOrder ==
    \A t \in Tasks :
        task[t].op = "deleteWorkspaceIndex"
        => LET w == task[t].ws
               chunksLeft == {c \in chunks : c.workspacePath = w}
               filesLeft == {r \in files : r.workspaceId = workspaceIdOf(w)}
               foldersBefore == {r \in task[t].before.folders : r.workspaceId = workspaceIdOf(w)}
           IN /\ \A c \in chunksLeft :
                    (\E r \in task[t].before.files : r.fileId = c.fileId)
                    => \E r \in files : r.fileId = c.fileId
              /\ task[t].pc = "dw_files" => chunksLeft = {}
              /\ task[t].pc = "dw_folders" => chunksLeft = {} /\ filesLeft = {}
              /\ filesLeft # {} => foldersBefore \subseteq folders

\* the call failed after it had deleted the chunks and file rows of a workspace
\* that had both; the folder rows are still there
C24_Witness ==
    \E t \in Tasks :
        /\ Finished(t, "deleteWorkspaceIndex") /\ task[t].outcome = "failed"
        /\ \E c \in task[t].before.chunks : c.workspacePath = task[t].ws
        /\ \E r \in task[t].before.files : r.workspaceId = workspaceIdOf(task[t].ws) /\ r \notin files
        /\ \E r \in folders : r.workspaceId = workspaceIdOf(task[t].ws)

\* the folder rows met by following parent links from r, for at most n links
RECURSIVE ParentChain(_, _)
ParentChain(r, n) ==
    IF r.parentFolderId = NoRow \/ n = 0 THEN <<r>>
    ELSE LET parents == {q \in folders : q.folderId = r.parentFolderId}
         IN IF parents = {} THEN <<r>>
            ELSE <<r>> \o ParentChain(CHOOSE q \in parents : TRUE, n - 1)

\* C25: folders form a forest per workspace: at most one folder row per
\* (workspace, folder path); every folder row with a parent id has its parent row
\* in the table, in every state, so no row was inserted before its parent; and
\* the parent links from any row reach a row with no parent without visiting a
\* row twice.
C25_FolderForest ==
    /\ \A r, q \in folders :
          (r.workspaceId = q.workspaceId /\ r.folderPath = q.folderPath) => r = q
    /\ \A r \in folders :
          r.parentFolderId # NoRow => \E q \in folders : q.folderId = r.parentFolderId
    /\ \A r \in folders :
          LET chain == ParentChain(r, Cardinality(folders))
          IN /\ chain[Len(chain)].parentFolderId = NoRow
             /\ \A i, j \in 1..Len(chain) : i # j => chain[i] # chain[j]

\* upsertIndexedFile failed after it had inserted the root folder and before it
\* inserted the folder under it
C25_Witness ==
    /\ dbcall.op = "upsertIndexedFile" /\ dbcall.result = "Error"
    /\ \E r \in folders : r.parentFolderId = NoRow
    /\ ~ \E r \in folders : r.parentFolderId # NoRow

\* C26: getOrCreateWorkspaceId is idempotent: every call with a workspace path
\* returns the id that belongs to the path, the path has its one row afterwards,
\* and a call for a path that has its row changes no table.
C26_WorkspaceIdIdempotent ==
    /\ [](LET w == dbcall.ws
          IN (dbcall.op = "getOrCreateWorkspaceId" /\ dbcall.open /\ w # NoPath)
             => /\ dbcall.result = "id" /\ dbcall.value = workspaceIdOf(w)
                /\ Cardinality({x \in workspaces : workspaceIdOf(x) = dbcall.value}) = 1
                /\ w \in workspaces)
    /\ [][LET w == dbcall'.ws
          IN (dbcall' # dbcall /\ dbcall'.op = "getOrCreateWorkspaceId" /\ dbcall'.open
              /\ w \in workspaces)
             => storeVars' = storeVars /\ dbcall'.value = workspaceIdOf(w)]_vars

\* a call that found the row an earlier call had inserted, with files indexed in between
C26_Witness ==
    /\ dbcall.op = "getOrCreateWorkspaceId" /\ dbcall.open /\ dbcall.ws = WsP
    /\ dbcall.value = workspaceIdOf(WsP)
    /\ workspaces = {WsP} /\ files # {}

\* what VectorDbService.search has resolved with
SearchResolved == searching.pc \in {"deliver", "done"} /\ searching.outcome = "ok"

C28_SidebarFilterThenCut ==
    (searching.caller = "sidebar" /\ searching.pc = "done" /\ searching.outcome = "ok") =>
        LET rel(r) == relativeTo(searching.ws, r.filePath)
            keep(r) ==
                /\ searching.include # <<>> =>
                      \E i \in 1..Len(searching.include) : minimatch(rel(r), searching.include[i])
                /\ searching.exclude # <<>> =>
                      ~ \E i \in 1..Len(searching.exclude) : minimatch(rel(r), searching.exclude[i])
            survivors == SelectSeq(searching.results, keep)
        IN /\ searching.view = "results"
           /\ searching.shown = SubSeq(survivors, 1, Min(searching.maxResults, Len(survivors)))

\* with both patterns given, the nearest of more candidates than maxResults was
\* filtered out and the second is shown
C28_Witness ==
    /\ searching.caller = "sidebar" /\ searching.pc = "done" /\ searching.outcome = "ok"
    /\ searching.include # <<>> /\ searching.exclude # <<>>
    /\ Len(searching.results) = 2 /\ searching.maxResults = 1
    /\ searching.shown = <<searching.results[2]>>


\* C29: when embedding the query or querying the vector index fails, the search
\* fails as a whole: the caller gets a failure that is not a result list, and no
\* list, partial or empty, is returned, stored or shown by that search
C29_SearchFailsAsAWhole ==
    /\ [](searching.outcome = "failed" =>
            /\ searching.results = <<>> /\ searching.shown = <<>>
            /\ searching.pc \in {"deliver", "done"}
            /\ searching.pc = "done" =>
                  /\ searching.caller = "sidebar" => searching.view = "error"
                  /\ searching.caller = "tool" => searching.view = "errortext"
                  /\ searching.caller = "service" => searching.view = "rejected")
    /\ [][searching'.outcome = "failed" =>
            searching'.lastResults = searching.lastResults]_vars

\* the sidebar shows the error of a search whose index query failed after the
\* query was embedded, and still holds the results of the search before
C29_Witness ==
    /\ searching.backend = "vectordb" /\ searching.caller = "sidebar"
    /\ searching.pc = "done" /\ searching.outcome = "failed"
    /\ searching.view = "error" /\ searching.lastResults = <<PreviousResult>>
    /\ chunks # {}


\* C30: searchInWorkspace(query, W, n) returns only chunks whose stored
\* workspace path equals W
C30_SearchInWorkspaceOnlyW ==
    (SearchResolved /\ searching.ws # NoPath) =>
        \A i \in 1..Len(searching.results) :
            \A c \in chunks :
                c.chunkId = searching.results[i].chunkId => c.workspacePath = searching.ws


\* C31: across any sequence of ensureInitialized calls, overlapping ones and
\* ones made after a failed load included, the model load is started at most once
C31_ModelLoadedOnce == Cardinality(embedding.loadStarts) <= 1

\* a call waits for the load that another call has started, and a third caller
\* has been through the service already
C31_Witness ==
    /\ embedding.initPromise = "pending"
    /\ \E c, d \in Callers :
          /\ embedding.loadStarts = {c}
          /\ embedding.caller[c].pc = "awaitLoad"
          /\ embedding.caller[d].kind = "initialize"
          /\ embedding.caller[d].pc = "awaitPromise"

\* C35: a command or the tool invoked while the model is loading waits for the
\* load; no embedding is requested while the model is not ready
C35_NoEmbedBeforeReady ==
    \A c \in Callers : embedding.caller[c].embedAt \in {"none", "ready"}

\* C40: after stop() has completed the server status stays 'stopped' and no
\* server process is spawned until start() is called again
C40_StopStaysStopped ==
    chromaProc.stopCompleted =>
        chromaProc.status = "stopped" /\ ~ chromaProc.spawnedSinceStop


\* C36: each chunk of the token chunker ends at a strictly later line than the
\* chunk before it, so no chunk's line span lies within the span of its predecessor
C36_ChunkEndsLater ==
    \A i \in 1..(Len(chunker.chunks) - 1) :
        chunker.chunks[i + 1].lineEnd > chunker.chunks[i].lineEnd

\* C37: the chunks of a non-empty document cover it without gaps: the first
\* starts at line 1, the last ends at the last line, and each starts no later
\* than the line after the end of the chunk before it
C37_ChunksCoverDocument ==
    (ChunkerDone /\ chunker.content # <<>>) =>
        /\ chunker.chunks # <<>>
        /\ chunker.chunks[1].lineStart = 1
        /\ chunker.chunks[Len(chunker.chunks)].lineEnd = Len(contentLines(chunker.content))
        /\ \A i \in 1..(Len(chunker.chunks) - 1) :
              chunker.chunks[i + 1].lineStart <= chunker.chunks[i].lineEnd + 1
        /\ \A n \in 1..Len(contentLines(chunker.content)) :
              \E i \in 1..Len(chunker.chunks) :
                  chunker.chunks[i].lineStart <= n /\ n <= chunker.chunks[i].lineEnd

\* a finished run without overlap that cut the document into three chunks or more
C37_Witness ==
    /\ ChunkerDone
    /\ chunker.overlapTokens = 0
    /\ Len(chunker.chunks) >= 3
    /\ Len(contentLines(chunker.content)) > Len(chunker.chunks)


\* a sidebar search of the vector database that has shown its results
FilteredSearchDone ==
    /\ searching.caller = "sidebar" /\ searching.backend = "vectordb"
    /\ searching.pc = "done" /\ searching.outcome = "ok"

\* the file path passes the include and exclude filters of the search
PassesFilters(filePath) ==
    LET rel == relativeTo(searching.ws, filePath)
    IN /\ searching.include # <<>> =>
             \E i \in 1..Len(searching.include) : minimatch(rel, searching.include[i])
       /\ searching.exclude # <<>> =>
             ~ \E i \in 1..Len(searching.exclude) : minimatch(rel, searching.exclude[i])

\* the chunks of the searched workspace, or of all workspaces when none is given
SearchedChunks ==
    {c \in chunks : searching.ws = NoPath \/ c.workspacePath = searching.ws}

ShownIds == {searching.shown[i].chunkId : i \in 1..Len(searching.shown)}

\* C38: whenever at least maxResults indexed chunks of the searched workspace
\* pass the include/exclude filters, a filtered search returns exactly
\* maxResults results, the best-scoring chunks among those that pass
C38_FilteredSearchComplete ==
    LET passing == {c \in SearchedChunks : PassesFilters(c.filePath)}
    IN (FilteredSearchDone /\ Cardinality(passing) >= searching.maxResults) =>
          /\ Len(searching.shown) = searching.maxResults
          /\ \A c \in passing : \A i \in 1..Len(searching.shown) :
                c.chunkId \notin ShownIds =>
                    searching.dist[c.chunkId] >= searching.dist[searching.shown[i].chunkId]

\* C38, amended: the filters are applied to the 2 * maxResults nearest chunks of
\* the searched workspace only: the results are the nearest of those candidates
\* that pass the filters, exactly maxResults of them whenever at least
\* maxResults candidates pass, and a chunk that is not among the candidates is
\* not returned even when it passes the filters
C38_FilteredCandidatesOnly ==
    FilteredSearchDone =>
        LET candidates == {searching.results[i] : i \in 1..Len(searching.results)}
            passing == {r \in candidates : PassesFilters(r.filePath)}
        IN /\ Len(searching.results) <= 2 * searching.maxResults
           /\ \A r \in candidates :
                 /\ \E c \in SearchedChunks : c.chunkId = r.chunkId
                 /\ Cardinality({c \in SearchedChunks :
                                    searching.dist[c.chunkId] < searching.dist[r.chunkId]})
                       < 2 * searching.maxResults
           /\ ShownIds \subseteq {r.chunkId : r \in passing}
           /\ Len(searching.shown) = Min(searching.maxResults, Cardinality(passing))
           /\ \A r \in passing : \A i \in 1..Len(searching.shown) :
                 r.chunkId \notin ShownIds =>
                     searching.dist[r.chunkId] >= searching.dist[searching.shown[i].chunkId]

\* the one chunk that passes the filters is the third nearest of the workspace,
\* so it is not among the two candidates and the search shows nothing
C38_Witness ==
    /\ FilteredSearchDone
    /\ searching.maxResults = 1
    /\ Len(searching.results) = 2
    /\ searching.shown = <<>>
    /\ \E c \in SearchedChunks : PassesFilters(c.filePath)


\* the chunk rows indexFile writes for content c of file f in workspace w
ChunksOfContent(w, f, c) == {chunkRow(w, f, c, k) : k \in 1..Len(ChunkTable[c])}

\* the chunks stored for the file are those of the content whose hash its row holds
RowMatchesChunks(w, f) ==
    /\ FileRows(StoreNow, generateFileId(w, f)) # {}
    /\ \A r \in FileRows(StoreNow, generateFileId(w, f)) :
          \E c \in Contents :
             /\ r.md5Hash = calculateMD5(c)
             /\ FileChunks(StoreNow, generateFileId(w, f)) = ChunksOfContent(w, f, c)

\* C32: when two overlapping indexFile calls on the same file, which have read
\* different contents of it, have both completed, the chunks stored for the
\* file are exactly the chunks of the content whose hash is in its row
C32_OverlappingIndexFileConsistent ==
    (/\ \A t \in Tasks : Finished(t, "indexFile") /\ task[t].outcome = "ok"
     /\ task["t1"].file = task["t2"].file /\ task["t1"].ws = task["t2"].ws
     /\ task["t1"].content # task["t2"].content)
    => RowMatchesChunks(task["t1"].ws, task["t1"].file)

\* C34: when the delete event of a file has been handled while an indexFile
\* call for the file was in flight, and both have completed, the file has no
\* row and no stored chunks
C34_DeleteDuringIndexFileWins ==
    (/\ Finished("t1", "indexFile") /\ Finished("t2", "deleteFileIndex")
     /\ task["t1"].file = task["t2"].file)
    => /\ FileRows(StoreNow, TaskFileId("t1")) = {}
       /\ FileChunks(StoreNow, TaskFileId("t1")) = {}


\* C33: whenever no indexing operation is in flight, the hash in each
\* IndexedFile row is the hash of the content whose chunks are exactly the
\* chunks stored for the file, also after indexFile calls that failed part-way
C33_HashSkipSound ==
    (\A t \in Tasks : task[t].pc \in {"idle", "done"})
    => \A r \in files :
          \E c \in Contents :
             /\ r.md5Hash = calculateMD5(c)
             /\ FileChunks(StoreNow, r.fileId) = ChunksOfContent(r.workspaceId[2], r.filePath, c)


\* reindexStaleFiles has returned without a throw and without a caught file
\* error: nothing was stale, or its indexFiles call has been through its list
ReindexStaleSucceeded(t) ==
    /\ task[t].pc = "done" /\ task[t].outcome = "ok" /\ task[t].errs = 0
    /\ task[t].op \in {"reindexStaleFiles", "indexFiles"}

\* C39: when reindexStaleFiles(W) has completed with no indexing failure, the
\* disk unchanged since it began, no file row of W is stale (getIndexEntries(W)
\* would flag none), and the rows and chunks of the entries that were not stale
\* are as they were when the call began
C39_ReindexStaleLeavesNoneStale ==
    \A t \in Tasks :
        ReindexStaleSucceeded(t)
        => /\ \A r \in getIndexedFilesForWorkspace(task[t].ws) : ~isStaleNow(r)
           /\ \A e \in task[t].entries :
                 ~e.isStale =>
                    /\ FileRows(StoreNow, e.fileId) = FileRows(task[t].before, e.fileId)
                    /\ FileChunks(StoreNow, e.fileId) = FileChunks(task[t].before, e.fileId)

\* a call has re-indexed the one stale file of a workspace that has a fresh one too
C39_Witness ==
    \E t \in Tasks :
        /\ ReindexStaleSucceeded(t)
        /\ Len(task[t].list) = 1 /\ task[t].last = "indexed"
        /\ \E e \in task[t].entries : ~e.isStale
        /\ \E e \in task[t].entries :
              e.isStale /\ FileChunks(StoreNow, e.fileId) # FileChunks(task[t].before, e.fileId)


=============================================================================
